---- MODULE Spec2Model ----
(***************************************************************************)
(* Model of the orchestrator's turn (core/orchestrator.py), the plan and   *)
(* task data model (core/models.py), the agent contract and registry       *)
(* (core/agents_base.py), the emotional engine (core/emotion.py) and the   *)
(* events / agent_runs / messages tables of the store (core/memory.py).    *)
(*                                                                         *)
(* One conversation runs turns.  A turn is the body of                     *)
(* Orchestrator.handle_user_message, cut into steps at the calls to the    *)
(* planner, to the agent and to the store; pc is the position in it.       *)
(***************************************************************************)
EXTENDS Integers, Sequences, FiniteSets

VARIABLES
    pc,                     \* position in handle_user_message
    turn,                   \* number of turns started on the context
    plan,                   \* context.plan
    events,                 \* store table events, in insertion order
    agent_runs,             \* store table agent_runs (rows by id)
    ids,                    \* number of ids handed out by new_id()
    next_task,              \* local next_task: index in plan.tasks, 0 = None
    run,                    \* local run of _execute_task
    tasks_executed,         \* local tasks_executed
    user_visible_response,  \* local user_visible_response (fragments)
    stop_here,              \* local stop_here
    invocations,            \* history: calls of agent.run in this turn
    returned,               \* value handed to the caller of the turn
    messages,               \* context.messages
    message_log,            \* store table messages, in insertion order
    emotional_state,        \* context.emotional_state
    memory_items,           \* store table memory_items, in insertion order
    agent_definitions,      \* store table agent_definitions, in insertion order
    now,                    \* the clock read by datetime.utcnow()
    registry,               \* AgentRegistry._agents: the instance of a name
    conversations,          \* concurrent conversations: context and turn of each
    op,                     \* history: the last call made on the store
    steps                   \* history: calls made on the store

vars == <<pc, turn, plan, events, agent_runs, ids, next_task, run,
          tasks_executed, user_visible_response, stop_here, invocations,
          returned, messages, message_log, emotional_state, memory_items,
          agent_definitions, now, registry, conversations, op,
          steps>>

\* the variables of a turn, but for the event log and the id counter
turn_vars == <<pc, turn, plan, agent_runs, next_task, run, tasks_executed,
               user_visible_response, stop_here, invocations, returned,
               messages, message_log, emotional_state>>

\* the tables, the clock and the registry the turn's steps leave alone
store_vars == <<memory_items, agent_definitions, now, registry,
                conversations, op, steps>>

(***************************************************************************)
(* Bounds of the model                                                     *)
(***************************************************************************)
MaxTasks == 2          \* longest plan the planner is given to return
MaxRetries == 2        \* largest max_retries of a step
MaxTurns == 2          \* turns of the multi-turn specification
max_tasks_per_turn == 3   \* OrchestratorConfig.max_tasks_per_turn as configured

(***************************************************************************)
(* Data model (core/models.py)                                             *)
(***************************************************************************)
PENDING == "pending"
RUNNING == "running"
DONE == "done"
ERROR == "error"

SUCCESS == "success"
FAILURE == "failure"

REQUEST_RECEIVED == "REQUEST_RECEIVED"
PLAN_CREATED == "PLAN_CREATED"
TASK_ASSIGNED == "TASK_ASSIGNED"
AGENT_RUN_COMPLETED == "AGENT_RUN_COMPLETED"
AGENT_RUN_FAILED == "AGENT_RUN_FAILED"

NullId == 0            \* None where an id is expected
UnknownId == 99        \* a dependency id that names no task of the plan

\* Task(...) as the planner constructs it: status pending, retry_count 0
Task(id, agent_name, depends_on, max_retries) ==
    [id |-> id, agent_name |-> agent_name, depends_on |-> depends_on,
     max_retries |-> max_retries, retry_count |-> 0, status |-> PENDING]

mark_running(t) == [t EXCEPT !.status = RUNNING]
mark_done(t) == [t EXCEPT !.status = DONE]
mark_error(t) == [t EXCEPT !.status = ERROR]

\* Message(role, content); a content is a sequence of text fragments
Message(role, content) == [role |-> role, content |-> content]

\* ConversationContext.add_message
add_message(msgs, role, content) == Append(msgs, Message(role, content))

\* 1.0 of an emotional dimension: the dimensions are held in thousandths
Unit == 1000

\* EmotionalState(): the defaults of a new context
EmotionalState ==
    [curiosity |-> 500, fatigue |-> 0, frustration |-> 0, confidence |-> 500,
     mood |-> 0, energy |-> 600, playfulness |-> 300, social_need |-> 400,
     learning_drive |-> 700]

\* EmotionDelta(): every field 0.0
EmotionDelta ==
    [curiosity |-> 0, fatigue |-> 0, frustration |-> 0, confidence |-> 0,
     mood |-> 0, energy |-> 0, playfulness |-> 0, social_need |-> 0,
     learning_drive |-> 0]

\* clamp that bounds a value from below only
clamp_LowerOnly(value, min_value, max_value) ==
    IF value < min_value THEN min_value ELSE value

clamp(value, min_value, max_value) ==
    IF value < min_value THEN min_value
    ELSE IF value > max_value THEN max_value ELSE value

clamp01(value) == clamp(value, 0, Unit)

apply_delta(s, d) ==
    [curiosity |-> clamp01(s.curiosity + d.curiosity),
     fatigue |-> clamp01(s.fatigue + d.fatigue),
     frustration |-> clamp01(s.frustration + d.frustration),
     confidence |-> clamp01(s.confidence + d.confidence),
     mood |-> clamp(s.mood + d.mood, -Unit, Unit),
     energy |-> clamp01(s.energy + d.energy),
     playfulness |-> clamp01(s.playfulness + d.playfulness),
     social_need |-> clamp01(s.social_need + d.social_need),
     learning_drive |-> clamp01(s.learning_drive + d.learning_drive)]

\* context.plan is None
NoPlan == [id |-> NullId, tasks |-> <<>>]

\* next((t for t in self.tasks if t.id == dep_id), None): index, 0 = None
FindTask(tasks, dep_id) ==
    IF \E j \in DOMAIN tasks : tasks[j].id = dep_id
    THEN CHOOSE j \in DOMAIN tasks :
            /\ tasks[j].id = dep_id
            /\ \A k \in DOMAIN tasks : tasks[k].id = dep_id => j <= k
    ELSE 0

\* the inner loop of get_next_task: no known dependency is pending or running
DepsReady(tasks, i) ==
    \A dep_id \in tasks[i].depends_on :
        \/ FindTask(tasks, dep_id) = 0
        \/ tasks[FindTask(tasks, dep_id)].status \notin {PENDING, RUNNING}

\* get_next_task that also takes a task in error
get_next_task_RetakesError(tasks) ==
    IF \E i \in DOMAIN tasks :
            tasks[i].status \in {PENDING, ERROR} /\ DepsReady(tasks, i)
    THEN CHOOSE i \in DOMAIN tasks :
            /\ tasks[i].status \in {PENDING, ERROR} /\ DepsReady(tasks, i)
            /\ \A k \in DOMAIN tasks :
                  (tasks[k].status \in {PENDING, ERROR} /\ DepsReady(tasks, k))
                      => i <= k
    ELSE 0

\* get_next_task that takes a pending ready task never run before a requeued
\* one
get_next_task_FreshFirst(tasks) ==
    IF \E i \in DOMAIN tasks :
            /\ tasks[i].status = PENDING /\ DepsReady(tasks, i)
            /\ tasks[i].retry_count = 0
    THEN CHOOSE i \in DOMAIN tasks :
            /\ tasks[i].status = PENDING /\ DepsReady(tasks, i)
            /\ tasks[i].retry_count = 0
            /\ \A k \in DOMAIN tasks :
                  (/\ tasks[k].status = PENDING /\ DepsReady(tasks, k)
                   /\ tasks[k].retry_count = 0) => i <= k
    ELSE IF \E i \in DOMAIN tasks :
                tasks[i].status = PENDING /\ DepsReady(tasks, i)
    THEN CHOOSE i \in DOMAIN tasks :
            /\ tasks[i].status = PENDING /\ DepsReady(tasks, i)
            /\ \A k \in DOMAIN tasks :
                  (tasks[k].status = PENDING /\ DepsReady(tasks, k)) => i <= k
    ELSE 0

\* Plan.get_next_task: index of the first pending ready task, 0 = None
get_next_task(tasks) ==
    IF \E i \in DOMAIN tasks : tasks[i].status = PENDING /\ DepsReady(tasks, i)
    THEN CHOOSE i \in DOMAIN tasks :
            /\ tasks[i].status = PENDING /\ DepsReady(tasks, i)
            /\ \A k \in DOMAIN tasks :
                  (tasks[k].status = PENDING /\ DepsReady(tasks, k)) => i <= k
    ELSE 0

(***************************************************************************)
(* Agents and registry (core/agents_base.py)                               *)
(***************************************************************************)
\* names in AgentRegistry._agents
Registered == {"chat_agent"}
\* agent names a plan can carry: steps name agents freely
AgentNames == Registered \cup {"ghost_agent"}

NoRun == [id |-> NullId, agent_name |-> "", status |-> "",
          user_visible_message |-> "", stop_for_user_input |-> FALSE]

\* what Agent.run can return: an AgentRun with a fresh id.  A success carries
\* a visible message or none; a failure (returned by _run_impl, or built from
\* its exception) carries none, so that its fragment is the error text
AgentRuns(id, agent_name) ==
    [id : {id}, agent_name : {agent_name}, status : {SUCCESS},
     user_visible_message : {"", "msg"}, stop_for_user_input : BOOLEAN]
    \cup
    [id : {id}, agent_name : {agent_name}, status : {FAILURE},
     user_visible_message : {""}, stop_for_user_input : BOOLEAN]

(***************************************************************************)
(* Emotional engine (core/emotion.py)                                      *)
(***************************************************************************)
\* value * num / den in thousandths, the fraction of a thousandth dropped
Times(value, num, den) ==
    IF value >= 0 THEN (value * num) \div den ELSE -((-value * num) \div den)

apply_decay_between_turns(s) ==
    [s EXCEPT !.fatigue = Times(@, 9, 10),
              !.frustration = Times(@, 9, 10),
              !.mood = Times(@, 95, 100),
              !.energy = @ + Times(600 - @, 1, 10),
              !.social_need = Times(@, 98, 100),
              !.playfulness = Times(@, 98, 100),
              !.learning_drive =
                    IF Times(@, 99, 100) + 10 > Unit THEN Unit
                    ELSE Times(@, 99, 100) + 10]

\* agent names that contain "requirements", "analysis_planner", "chat_agent"
RequirementsNames == {"requirements_agent"}
AnalysisPlannerNames == {"analysis_planner_agent"}
ChatAgentNames == {"chat_agent"}

\* the delta update_on_agent_run accumulates for a run
RunDelta(r) ==
    LET is_success == r.status = SUCCESS
        base == IF is_success
                THEN [EmotionDelta EXCEPT !.confidence = 50, !.curiosity = 20,
                                          !.fatigue = 5, !.frustration = -20,
                                          !.mood = 50, !.energy = 30,
                                          !.learning_drive = 20]
                ELSE [EmotionDelta EXCEPT !.confidence = -50,
                                          !.frustration = 80, !.fatigue = 30,
                                          !.mood = -80, !.energy = -20,
                                          !.social_need = 50]
        req == IF r.agent_name \in RequirementsNames /\ ~is_success
               THEN [base EXCEPT !.frustration = @ + 50, !.mood = @ - 30]
               ELSE base
        ana == IF r.agent_name \in AnalysisPlannerNames /\ is_success
               THEN [req EXCEPT !.curiosity = @ + 30, !.learning_drive = @ + 30]
               ELSE req
    IN  IF r.agent_name \in ChatAgentNames
        THEN [ana EXCEPT !.social_need = @ - 20]
        ELSE ana

\* update_on_agent_run that also applies the delta the run carries
update_on_agent_run_AppliesRunDelta(s, r) ==
    apply_delta(apply_delta(s, RunDelta(r)), r.emotion_delta)

\* EmotionalEngine.update_on_agent_run
update_on_agent_run(s, r) == apply_delta(s, RunDelta(r))

(***************************************************************************)
(* Store (core/memory.py)                                                  *)
(***************************************************************************)
CorrelationId == "conv"

Event(type, plan_id, num_tasks, warning, task_id, run_id, status) ==
    [type |-> type, correlation_id |-> CorrelationId, plan_id |-> plan_id,
     num_tasks |-> num_tasks, warning |-> warning, task_id |-> task_id,
     run_id |-> run_id, status |-> status]

\* MemoryEngine.log_event: INSERT of one row
log_event(evs, ev) == Append(evs, ev)

\* MemoryEngine.log_message: INSERT of one row
log_message(rows, m) == Append(rows, m)

\* MemoryEngine.log_agent_run: INSERT OR REPLACE by id
log_agent_run(rows, r) ==
    {x \in rows : x.id # r.id} \cup {[id |-> r.id, status |-> r.status]}

(***************************************************************************)
(* Plans the planner can hand to the orchestrator                          *)
(***************************************************************************)
\* max_retries=int(step.get("max_retries") or 0): any integer of the step
RetryValues == {-2} \cup (0 .. MaxRetries)

\* depends_on of step i in a plan of n steps: one id, known or unknown, or
\* every id but its own
DepSets(n, i) ==
    {{d} : d \in (1 .. n) \cup {UnknownId}}
    \cup {((1 .. n) \cup {UnknownId}) \ {i}}

\* the steps a plan can carry at position i: a step without dependencies
\* for a registered agent with any max_retries, a step naming an agent the
\* registry does not hold, a step with dependencies and one retry
TaskChoices(n, i) ==
    {Task(i, a, {}, r) : a \in Registered, r \in RetryValues}
    \cup {Task(i, a, {}, 0) : a \in AgentNames \ Registered}
    \cup {Task(i, a, D, 1) : a \in Registered, D \in DepSets(n, i)}

\* the task lists of length k whose steps may depend on n ids
RECURSIVE TaskListsUpTo(_, _)
TaskListsUpTo(n, k) ==
    IF k = 0 THEN {<<>>}
    ELSE {Append(ts, t) : ts \in TaskListsUpTo(n, k - 1), t \in TaskChoices(n, k)}

TaskLists(n) == TaskListsUpTo(n, n)

AllTaskLists == UNION {TaskLists(n) : n \in 0 .. MaxTasks}

(***************************************************************************)
(* The turn: Orchestrator.handle_user_message                              *)
(***************************************************************************)
\* no call made on the store yet
NoOp == [name |-> "none"]

\* an instance of an agent class: obj() gives an object of its own each
\* time, told apart by the call and the position at which it was made
Instance(name, made) == [name |-> name, made |-> made]

\* the registry once the process has started: the agents of Registered
StartRegistry == [n \in Registered |-> Instance(n, <<0, 0>>)]

Fallback == <<"fallback">>
PlanFailure == <<"plan_failure">>
NotReturned == <<"not_returned">>
UserText == <<"text">>

Init ==
    /\ pc = "idle"
    /\ turn = 0
    /\ plan = NoPlan
    /\ events = <<>>
    /\ agent_runs = {}
    /\ ids = 0
    /\ next_task = 0
    /\ run = NoRun
    /\ tasks_executed = 0
    /\ user_visible_response = <<>>
    /\ stop_here = FALSE
    /\ invocations = 0
    /\ returned = NotReturned
    /\ messages = <<>>
    /\ message_log = <<>>
    /\ emotional_state = EmotionalState
    /\ memory_items = <<>>
    /\ agent_definitions = <<>>
    /\ now = 0
    /\ registry = StartRegistry
    /\ conversations = <<>>
    /\ op = NoOp
    /\ steps = 0

\* handle_user_message without the decay between turns
StartTurn_NoDecay(limit) ==
    /\ pc \in {"idle", "returned", "raised"}
    /\ UNCHANGED store_vars
    /\ turn < limit
    /\ turn' = turn + 1
    /\ emotional_state' = emotional_state
    /\ messages' = add_message(messages, "user", UserText)
    /\ message_log' = log_message(message_log, Message("user", UserText))
    /\ events' = log_event(events,
                    Event(REQUEST_RECEIVED, NullId, 0, FALSE, NullId, NullId, ""))
    /\ next_task' = 0
    /\ run' = NoRun
    /\ tasks_executed' = 0
    /\ user_visible_response' = <<>>
    /\ stop_here' = FALSE
    /\ invocations' = 0
    /\ returned' = NotReturned
    /\ pc' = "build"
    /\ UNCHANGED <<plan, agent_runs, ids>>

\* lines 71-90: the decay between turns, the user message, REQUEST_RECEIVED
StartTurn(limit) ==
    /\ pc \in {"idle", "returned", "raised"}
    /\ UNCHANGED store_vars
    /\ turn < limit
    /\ turn' = turn + 1
    /\ emotional_state' = apply_decay_between_turns(emotional_state)
    /\ messages' = add_message(messages, "user", UserText)
    /\ message_log' = log_message(message_log, Message("user", UserText))
    /\ events' = log_event(events,
                    Event(REQUEST_RECEIVED, NullId, 0, FALSE, NullId, NullId, ""))
    /\ next_task' = 0
    /\ run' = NoRun
    /\ tasks_executed' = 0
    /\ user_visible_response' = <<>>
    /\ stop_here' = FALSE
    /\ invocations' = 0
    /\ returned' = NotReturned
    /\ pc' = "build"
    /\ UNCHANGED <<plan, agent_runs, ids>>

\* the plan of the previous turn resumed while it has pending tasks
BuildPlan_Resume(lists) ==
    /\ pc = "build"
    /\ UNCHANGED store_vars
    /\ IF \E i \in DOMAIN plan.tasks : plan.tasks[i].status = PENDING
       THEN UNCHANGED <<plan, ids>>
       ELSE \E ts \in lists :
                /\ plan' = [id |-> ids + 1, tasks |-> ts]
                /\ ids' = ids + 1
    /\ pc' = "log_plan"
    /\ UNCHANGED <<turn, events, agent_runs, next_task, run, tasks_executed,
                   user_visible_response, stop_here, invocations, returned,
                   messages, message_log, emotional_state>>

\* lines 95-100: context.plan = router.build_plan(...): a new Plan or None
BuildPlan(lists) ==
    /\ pc = "build"
    /\ UNCHANGED store_vars
    /\ \/ \E ts \in lists :
            /\ plan' = [id |-> ids + 1, tasks |-> ts]
            /\ ids' = ids + 1
       \/ /\ plan' = NoPlan
          /\ ids' = ids
    /\ pc' = "log_plan"
    /\ UNCHANGED <<turn, events, agent_runs, next_task, run, tasks_executed,
                   user_visible_response, stop_here, invocations, returned,
                   messages, message_log, emotional_state>>

\* lines 103-148: log PLAN_CREATED; without a plan return the fallback
LogPlanCreated ==
    /\ pc = "log_plan"
    /\ UNCHANGED store_vars
    /\ IF plan # NoPlan
       THEN /\ events' = log_event(events,
                    Event(PLAN_CREATED, plan.id, Len(plan.tasks), FALSE,
                          NullId, NullId, ""))
            /\ pc' = "loop"
            /\ UNCHANGED <<returned, messages, message_log>>
       ELSE /\ events' = log_event(events,
                    Event(PLAN_CREATED, NullId, 0, TRUE, NullId, NullId, ""))
            /\ messages' = add_message(messages, "assistant", PlanFailure)
            /\ message_log' = log_message(message_log,
                                    Message("assistant", PlanFailure))
            /\ pc' = "returned"
            /\ returned' = PlanFailure
    /\ UNCHANGED <<turn, plan, agent_runs, ids, next_task, run, tasks_executed,
                   user_visible_response, stop_here, invocations,
                   emotional_state>>

\* lines 150-168: the loop test, get_next_task and the TASK_ASSIGNED event
Dispatch ==
    /\ pc = "loop"
    /\ UNCHANGED store_vars
    /\ IF tasks_executed < max_tasks_per_turn /\ plan # NoPlan
          /\ get_next_task(plan.tasks) # 0
       THEN /\ next_task' = get_next_task(plan.tasks)
            /\ events' = log_event(events,
                    Event(TASK_ASSIGNED, plan.id, 0, FALSE,
                          plan.tasks[get_next_task(plan.tasks)].id, NullId, ""))
            /\ pc' = "exec"
       ELSE /\ UNCHANGED <<next_task, events>>
            /\ pc' = "finish"
    /\ UNCHANGED <<turn, plan, agent_runs, ids, run, tasks_executed,
                   user_visible_response, stop_here, invocations, returned,
                   messages, message_log, emotional_state>>

\* lines 209-233: registry.get (KeyError for an unknown name), mark_running,
\* agent.run, update_on_agent_run
CallAgent ==
    /\ pc = "exec"
    /\ UNCHANGED store_vars
    /\ IF plan.tasks[next_task].agent_name \notin Registered
       THEN /\ pc' = "raised"
            /\ UNCHANGED <<plan, run, ids, invocations, emotional_state>>
       ELSE /\ plan' = [plan EXCEPT !.tasks[next_task] = mark_running(@)]
            /\ \E r \in AgentRuns(ids + 1, plan.tasks[next_task].agent_name) :
                    /\ run' = r
                    /\ emotional_state' =
                            update_on_agent_run(emotional_state, r)
            /\ ids' = ids + 1
            /\ invocations' = invocations + 1
            /\ pc' = "log_run"
    /\ UNCHANGED <<turn, events, agent_runs, next_task, tasks_executed,
                   user_visible_response, stop_here, returned, messages,
                   message_log>>

\* the run row not yet written when its event is emitted
LogAgentRun_Deferred ==
    /\ pc = "log_run"
    /\ UNCHANGED store_vars
    /\ pc' = "log_run_event"
    /\ UNCHANGED <<turn, plan, events, agent_runs, ids, next_task, run,
                   tasks_executed, user_visible_response, stop_here,
                   invocations, returned, messages, message_log,
                   emotional_state>>

\* line 236: memory.log_agent_run(run)
LogAgentRun ==
    /\ pc = "log_run"
    /\ UNCHANGED store_vars
    /\ agent_runs' = log_agent_run(agent_runs, run)
    /\ pc' = "log_run_event"
    /\ UNCHANGED <<turn, plan, events, ids, next_task, run, tasks_executed,
                   user_visible_response, stop_here, invocations, returned,
                   messages, message_log, emotional_state>>

\* the retry test written retry_count <= max_retries
TaskAfterRun_OffByOne(t, r) ==
    IF r.status = SUCCESS
    THEN mark_done(t)
    ELSE IF t.retry_count <= t.max_retries
         THEN [t EXCEPT !.retry_count = t.retry_count + 1, !.status = PENDING]
         ELSE mark_error(t)

\* lines 256-279: the task after its run
TaskAfterRun(t, r) ==
    IF r.status = SUCCESS
    THEN mark_done(t)
    ELSE IF t.retry_count < t.max_retries
         THEN [t EXCEPT !.retry_count = t.retry_count + 1, !.status = PENDING]
         ELSE mark_error(t)

\* lines 222, 281-286: the fragment shown for a run
UserMsg(r) ==
    IF r.user_visible_message # "" THEN <<r.user_visible_message>>
    ELSE IF r.status = FAILURE THEN <<"error_text">>
    ELSE <<>>

\* the stop flag honoured for successful runs only
StopHere_OnSuccessOnly(r) == r.stop_for_user_input /\ r.status = SUCCESS

\* line 288: stop_here = bool(run.output_payload.get("stop_for_user_input"))
StopHere(r) == r.stop_for_user_input

\* the task counted against the budget of the turn only when its run
\* succeeded
CompleteTask_CountsSuccesses ==
    /\ pc = "log_run_event"
    /\ UNCHANGED store_vars
    /\ events' = log_event(events,
            Event(IF run.status = SUCCESS THEN AGENT_RUN_COMPLETED
                                          ELSE AGENT_RUN_FAILED,
                  NullId, 0, FALSE, plan.tasks[next_task].id, run.id,
                  run.status))
    /\ plan' = [plan EXCEPT !.tasks[next_task] = TaskAfterRun(@, run)]
    /\ user_visible_response' = user_visible_response \o UserMsg(run)
    /\ tasks_executed' = IF run.status = SUCCESS THEN tasks_executed + 1
                         ELSE tasks_executed
    /\ stop_here' = StopHere(run)
    /\ pc' = IF StopHere(run) THEN "finish" ELSE "loop"
    /\ UNCHANGED <<turn, agent_runs, ids, next_task, run, invocations,
                   returned, messages, message_log, emotional_state>>

\* lines 238-290 and 174-182: log AGENT_RUN_*, update the task, collect the
\* fragment, count the task, break on stop_for_user_input
CompleteTask ==
    /\ pc = "log_run_event"
    /\ UNCHANGED store_vars
    /\ events' = log_event(events,
            Event(IF run.status = SUCCESS THEN AGENT_RUN_COMPLETED
                                          ELSE AGENT_RUN_FAILED,
                  NullId, 0, FALSE, plan.tasks[next_task].id, run.id,
                  run.status))
    /\ plan' = [plan EXCEPT !.tasks[next_task] = TaskAfterRun(@, run)]
    /\ user_visible_response' = user_visible_response \o UserMsg(run)
    /\ tasks_executed' = tasks_executed + 1
    /\ stop_here' = StopHere(run)
    /\ pc' = IF StopHere(run) THEN "finish" ELSE "loop"
    /\ UNCHANGED <<turn, agent_runs, ids, next_task, run, invocations,
                   returned, messages, message_log, emotional_state>>

\* the accumulated text returned as it is, empty when no fragment was made
Finish_NoFallback ==
    /\ pc = "finish"
    /\ UNCHANGED store_vars
    /\ messages' = add_message(messages, "assistant", user_visible_response)
    /\ message_log' = log_message(message_log,
                            Message("assistant", user_visible_response))
    /\ returned' = user_visible_response
    /\ pc' = "returned"
    /\ UNCHANGED <<turn, plan, events, agent_runs, ids, next_task, run,
                   tasks_executed, user_visible_response, stop_here,
                   invocations, emotional_state>>

\* lines 184-193: the fallback text, the assistant message, the return
Finish ==
    /\ pc = "finish"
    /\ UNCHANGED store_vars
    /\ LET text == IF user_visible_response = <<>> THEN Fallback
                   ELSE user_visible_response
       IN  /\ messages' = add_message(messages, "assistant", text)
           /\ message_log' = log_message(message_log,
                                    Message("assistant", text))
           /\ returned' = text
    /\ pc' = "returned"
    /\ UNCHANGED <<turn, plan, events, agent_runs, ids, next_task, run,
                   tasks_executed, user_visible_response, stop_here,
                   invocations, emotional_state>>

Next ==
    \/ StartTurn(1)
    \/ BuildPlan(AllTaskLists)
    \/ LogPlanCreated
    \/ Dispatch
    \/ CallAgent
    \/ LogAgentRun
    \/ CompleteTask
    \/ Finish

Spec == Init /\ [][Next]_vars

\* plans whose tasks cannot all be run: a step depending on itself, two
\* steps depending on each other, a free step before a step depending on
\* itself, two free steps with as many retries as a step can have, a step
\* naming an agent the registry does not hold
LoopTaskLists ==
    {<<Task(1, "chat_agent", {1}, 1)>>,
     <<Task(1, "chat_agent", {2}, 1), Task(2, "chat_agent", {1}, 1)>>,
     <<Task(1, "chat_agent", {}, MaxRetries), Task(2, "chat_agent", {2}, 0)>>,
     <<Task(1, "chat_agent", {}, MaxRetries),
       Task(2, "chat_agent", {}, MaxRetries)>>,
     <<Task(1, "chat_agent", {}, 0), Task(2, "ghost_agent", {}, 0)>>}

\* the steps of a turn under way: handle_user_message runs on to its end,
\* every agent call returning
TurnSteps ==
    \/ BuildPlan(LoopTaskLists)
    \/ LogPlanCreated
    \/ Dispatch
    \/ CallAgent
    \/ LogAgentRun
    \/ CompleteTask
    \/ Finish

NextTerminates ==
    \/ StartTurn(1)
    \/ TurnSteps

SpecTerminates == Init /\ [][NextTerminates]_vars /\ WF_vars(TurnSteps)

\* plans of the multi-turn specification: a step with one retry followed by
\* a step depending on itself (a dependency that never becomes ready), or
\* two free steps without retries
TurnTaskLists ==
    {<<Task(1, a, {}, 1), Task(2, a, {2}, 1)>> : a \in Registered}
    \cup {<<Task(1, a, {}, 0), Task(2, a, {}, 0)>> : a \in Registered}

NextTurns ==
    \/ StartTurn(MaxTurns)
    \/ BuildPlan(TurnTaskLists)
    \/ LogPlanCreated
    \/ Dispatch
    \/ CallAgent
    \/ LogAgentRun
    \/ CompleteTask
    \/ Finish

SpecTurns == Init /\ [][NextTurns]_vars

(***************************************************************************)
(* The store called directly (core/memory.py): memory_items, events and    *)
(* agent_definitions.  Every row is stamped with datetime.utcnow(), and    *)
(* the reads order by that stamp: two calls can read the same clock value, *)
(* and rows with equal stamps come back in an order SQL leaves open, so a  *)
(* read is modelled by the set of results it can give.                     *)
(***************************************************************************)
MaxStoreOps == 3       \* calls made on the store

\* None
Null == "null"

\* the values datetime.utcnow() can return for a call made at clock now
Stamps == {now, now + 1}

\* contents given to store_item: texts, and a value that is not a str
TextContents == {"a", "b"}
ObjectContents == {"obj"}

\* isinstance(value, str)
IsStr(value) == value \notin ObjectContents \cup {"list", "tuple"}

\* json.dumps of a value that is not a str
json_dumps(value) ==
    CASE value = "obj" -> "{obj}"
      [] value = "list" -> "[1]"
      [] value = "tuple" -> "[1]"
      [] OTHER -> value

\* json.loads of a text json.dumps produced
json_loads(text) ==
    CASE text = "{obj}" -> "obj"
      [] text = "[1]" -> "list"
      [] OTHER -> text

\* texts json.loads parses into a mapping
JsonObjects == {"{obj}"}

MemoryItem(id, scope, type, key, content, created_at) ==
    [id |-> id, scope |-> scope, type |-> type, key |-> key,
     content |-> content, created_at |-> created_at]

\* store_item that replaces the rows of the same scope, type and key
store_item_Upsert(items, id, scope, type, key, content, created_at) ==
    Append(SelectSeq(items, LAMBDA x : ~(x.scope = scope /\ x.type = type
                                         /\ x.key = key)),
           MemoryItem(id, scope, type, key,
                      IF IsStr(content) THEN content
                      ELSE json_dumps(content),
                      created_at))

\* MemoryEngine.store_item: the content made a str, then INSERT of one row
store_item(items, id, scope, type, key, content, created_at) ==
    Append(items,
           MemoryItem(id, scope, type, key,
                      IF IsStr(content) THEN content
                      ELSE json_dumps(content),
                      created_at))

\* key of the profile of a user: "user_profile:" + user_id
UserProfileKey(user_id) == IF user_id = "u1" THEN "user_profile:u1" ELSE Null

\* (scope, type, key) of the calls of store_item
ItemCoords ==
    {<<"global", "procedural", "k">>, <<"user", "procedural", "k">>}

\* positions of the rows a read with key and optional scope and type selects
Matching(items, key, scope, type) ==
    {i \in DOMAIN items :
        /\ items[i].key = key
        /\ scope # Null => items[i].scope = scope
        /\ type # Null => items[i].type = type}

\* MemoryEngine.load_item_content: ORDER BY created_at DESC LIMIT 1; the
\* contents the query can return, Null for no row
load_item_content(items, key, scope, type) ==
    LET M == Matching(items, key, scope, type)
    IN  IF M = {} THEN {Null}
        ELSE {items[i].content :
                i \in {j \in M : \A k \in M :
                            items[k].created_at <= items[j].created_at}}

\* a call of store_item
StoreItem ==
    /\ steps < MaxStoreOps
    /\ \E c \in ItemCoords, content \in TextContents \cup ObjectContents,
          ts \in Stamps :
            /\ content \in ObjectContents => c[1] = "global"
            /\ memory_items' = store_item(memory_items, ids + 1, c[1], c[2],
                                          c[3], content, ts)
            /\ now' = ts
            /\ op' = [name |-> "store_item", id |-> ids + 1, scope |-> c[1],
                      type |-> c[2], key |-> c[3], content |-> content]
    /\ ids' = ids + 1
    /\ steps' = steps + 1
    /\ UNCHANGED <<turn_vars, registry, conversations, events, agent_definitions>>

\* a call of save_user_profile_json: ValueError for a text that is no JSON,
\* else store_item under the key of the user's profile
SaveUserProfileJson ==
    /\ steps < MaxStoreOps
    /\ \E content_json \in JsonObjects \cup {"a"} :
          IF content_json \in JsonObjects
          THEN \E ts \in Stamps :
                /\ memory_items' = store_item(memory_items, ids + 1, "user",
                                        "semantic", UserProfileKey("u1"),
                                        content_json, ts)
                /\ now' = ts
                /\ ids' = ids + 1
                /\ op' = [name |-> "save_user_profile_json", id |-> ids + 1,
                          raised |-> FALSE]
          ELSE /\ op' = [name |-> "save_user_profile_json", id |-> NullId,
                         raised |-> TRUE]
               /\ UNCHANGED <<memory_items, now, ids>>
    /\ steps' = steps + 1
    /\ UNCHANGED <<turn_vars, registry, conversations, events, agent_definitions>>

\* a row of events as log_event writes it for a call made directly; the
\* rows of a turn spell the payload entries out instead and leave the
\* timestamp column, which a turn never reads, out
EventRow(type, correlation_id, timestamp, payload_json) ==
    [type |-> type, correlation_id |-> correlation_id,
     timestamp |-> timestamp, payload_json |-> payload_json]

\* correlation ids and payload values of the calls of log_event
CorrelationIds == {"", CorrelationId}
PayloadValues == {"text", "list", "tuple"}

\* the Event get_events builds from a row
EventOfRow(row) ==
    [type |-> row.type, correlation_id |-> row.correlation_id,
     payload |-> json_loads(row.payload_json)]

\* positions of the rows get_events selects: the filter is skipped for a
\* correlation_id that is None or empty
Selected(evs, correlation_id) ==
    {i \in DOMAIN evs :
        (correlation_id # Null /\ correlation_id # "")
            => evs[i].correlation_id = correlation_id}

\* the orders ORDER BY timestamp DESC can give the selected rows
DescOrders(evs, S) ==
    {f \in [1 .. Cardinality(S) -> S] :
        /\ \A a, b \in 1 .. Cardinality(S) : a # b => f[a] # f[b]
        /\ \A a, b \in 1 .. Cardinality(S) :
              a < b => evs[f[a]].timestamp >= evs[f[b]].timestamp}

\* MemoryEngine.get_events: the first limit rows of the descending order,
\* reversed; the lists the call can return
get_events(evs, correlation_id, limit) ==
    LET S == Selected(evs, correlation_id)
        m == IF Cardinality(S) < limit THEN Cardinality(S) ELSE limit
    IN  {[k \in 1 .. m |-> EventOfRow(evs[f[m + 1 - k]])] :
            f \in DescOrders(evs, S)}

\* a call of log_event
LogEvent ==
    /\ steps < MaxStoreOps
    /\ \E c \in CorrelationIds, payload \in PayloadValues, ts \in Stamps :
            /\ payload # "text" => c = CorrelationId
            /\ events' = log_event(events,
                            EventRow(REQUEST_RECEIVED, c, ts,
                                     json_dumps(payload)))
            /\ now' = ts
            /\ op' = [name |-> "log_event", type |-> REQUEST_RECEIVED,
                      correlation_id |-> c, payload |-> payload]
    /\ ids' = ids + 1
    /\ steps' = steps + 1
    /\ UNCHANGED <<turn_vars, registry, conversations, memory_items, agent_definitions>>

MaxDefs == 2           \* agent definitions, by id

\* values a definition dict lacks: no created_at, no parent_id
NullStamp == -1

\* the name of the definition created with id i, and another name
Name(i) == <<"agent", i>>
Renamed == <<"agent", 0>>

\* config of a definition: the prompt and the module binding
Config(system_prompt_template, module) ==
    [system_prompt_template |-> system_prompt_template, module |-> module]

\* a definition as the dict handed to save_agent_definition, and as the row
\* of agent_definitions
AgentDefinition(id, name, description, config, created_at, is_active, parent_id, lifecycle_state) ==
    [id |-> id, name |-> name, description |-> description,
     config |-> config, created_at |-> created_at, is_active |-> is_active,
     parent_id |-> parent_id, lifecycle_state |-> lifecycle_state]

\* position of the row with an id, 0 = none
FindDefinition(defs, id) ==
    IF \E i \in DOMAIN defs : defs[i].id = id
    THEN CHOOSE i \in DOMAIN defs : defs[i].id = id
    ELSE 0

\* a table whose name column is not UNIQUE
SaveRaises_NoUnique(defs, d) == FALSE

\* name is UNIQUE: sqlite3.IntegrityError when another row holds the name
SaveRaises(defs, d) ==
    \E i \in DOMAIN defs : defs[i].name = d.name /\ defs[i].id # d.id

\* MemoryEngine.save_agent_definition: INSERT ... ON CONFLICT(id) DO UPDATE
\* SET name, description, config_json, is_active, parent_id, lifecycle_state
save_agent_definition(defs, d, ts) ==
    LET i == FindDefinition(defs, d.id)
        lifecycle_state == IF d.lifecycle_state = "" THEN "draft"
                           ELSE d.lifecycle_state
    IN  IF SaveRaises(defs, d) THEN defs
        ELSE IF i # 0
        THEN [defs EXCEPT ![i] =
                [@ EXCEPT !.name = d.name,
                          !.description = d.description,
                          !.config = d.config,
                          !.is_active = d.is_active,
                          !.parent_id = d.parent_id,
                          !.lifecycle_state = lifecycle_state]]
        ELSE Append(defs,
                [d EXCEPT !.created_at = IF d.created_at = NullStamp THEN ts
                                         ELSE d.created_at,
                          !.lifecycle_state = lifecycle_state])

\* the dicts of the direct calls of save_agent_definition
DefinitionChoices ==
    UNION {{AgentDefinition(i, Name(i), "plain", Config("plain", ""),
                            NullStamp, FALSE, NullId, ""),
            AgentDefinition(i, Name(i), "other", Config("plain", "agents.x"),
                            NullStamp, TRUE, i, "active"),
            AgentDefinition(i, Renamed, "plain", Config("plain", ""),
                            NullStamp, FALSE, NullId, "test")} :
           i \in 1 .. MaxDefs}

\* a call of save_agent_definition
SaveAgentDefinition ==
    /\ steps < MaxStoreOps
    /\ \E d \in DefinitionChoices, ts \in Stamps :
            /\ FindDefinition(agent_definitions, d.id) # 0 => ts = now
            /\ SaveRaises(agent_definitions, d) => ts = now
            /\ agent_definitions' =
                    save_agent_definition(agent_definitions, d, ts)
            /\ now' = ts
            /\ op' = [name |-> "save_agent_definition", id |-> d.id,
                      named |-> d.name,
                      stored |-> FindDefinition(agent_definitions, d.id) # 0,
                      raised |-> SaveRaises(agent_definitions, d)]
    /\ steps' = steps + 1
    /\ UNCHANGED <<turn_vars, registry, conversations, events, ids, memory_items>>

NextStore ==
    \/ StoreItem
    \/ SaveUserProfileJson
    \/ LogEvent
    \/ SaveAgentDefinition

SpecStore == Init /\ [][NextStore]_vars

(***************************************************************************)
(* The governance agents (agents/architect_agent.py,                       *)
(* agents/security_review_agent.py, agents/curator_agent.py,               *)
(* agents/codegen_agent.py) run on the store                               *)
(***************************************************************************)
MaxGovSteps == 3       \* runs of governance agents

\* a text is the sequence of its characters
UpperLetters ==
    <<"A", "B", "C", "D", "E", "F", "G", "H", "I", "J", "K", "L", "M", "N",
      "O", "P", "Q", "R", "S", "T", "U", "V", "W", "X", "Y", "Z">>

LowerLetters ==
    <<"a", "b", "c", "d", "e", "f", "g", "h", "i", "j", "k", "l", "m", "n",
      "o", "p", "q", "r", "s", "t", "u", "v", "w", "x", "y", "z">>

Digits == <<"0", "1", "2", "3", "4", "5", "6", "7", "8", "9">>

LowerChar(c) ==
    IF \E k \in DOMAIN UpperLetters : UpperLetters[k] = c
    THEN LowerLetters[CHOOSE k \in DOMAIN UpperLetters : UpperLetters[k] = c]
    ELSE c

\* str.lower()
Lower(text) == [k \in DOMAIN text |-> LowerChar(text[k])]

\* kw in text
Contains(kw, text) ==
    \E k \in 1 .. (Len(text) - Len(kw) + 1) :
        SubSeq(text, k, k + Len(kw) - 1) = kw

\* "\n".join(blobs)
RECURSIVE Join(_)
Join(blobs) ==
    IF blobs = <<>> THEN <<>>
    ELSE IF Len(blobs) = 1 THEN blobs[1]
    ELSE blobs[1] \o <<"\n">> \o Join(Tail(blobs))

\* str.strip()
RECURSIVE Strip(_)
Strip(text) ==
    IF text = <<>> THEN text
    ELSE IF text[1] \in {" ", "\n"} THEN Strip(Tail(text))
    ELSE IF text[Len(text)] \in {" ", "\n"}
         THEN Strip(SubSeq(text, 1, Len(text) - 1))
    ELSE text

\* the list of the module, in its order
DANGEROUS_KEYWORDS ==
    <<<<"r", "m", " ", "-", "r", "f">>,
      <<"d", "r", "o", "p", " ", "t", "a", "b", "l", "e">>,
      <<"f", "o", "r", "m", "a", "t", " ", "c", ":">>,
      <<"s", "h", "u", "t", "d", "o", "w", "n">>,
      <<"k", "i", "l", "l", " ", "-", "9">>,
      <<"e", "x", "e", "c", "(">>,
      <<"e", "v", "a", "l", "(">>,
      <<"s", "u", "b", "p", "r", "o", "c", "e", "s", "s", ".", "P", "o", "p", "e",
  "n">>,
      <<"o", "s", ".", "s", "y", "s", "t", "e", "m", "(">>>>

\* hits = [kw for kw in DANGEROUS_KEYWORDS if kw in full_text], by position
Hits(full_text) ==
    {k \in DOMAIN DANGEROUS_KEYWORDS :
        Contains(DANGEROUS_KEYWORDS[k], full_text)}

\* the text of the name of a definition
NameText(name) == <<"a", "g", "e", "n", "t", "_", Digits[name[2] + 1]>>

\* descriptions and prompts the language model can write for a definition
HelperText ==
    <<"h", "e", "l", "p", "e", "r", " ", "a", "g", "e", "n", "t", " ", "f",
      "o", "r", " ", "r", "e", "p", "o", "r", "t", "s">>

PromptText ==
    <<"b", "e", " ", "h", "e", "l", "p", "f", "u", "l">>

RmPrompt ==
    <<"r", "u", "n", " ", "r", "m", " ", "-", "r", "f", " ", "/", " ", "n",
      "o", "w">>

UpperRmText ==
    <<"R", "M", " ", "-", "R", "F", " ", "/", "t", "m", "p">>

PopenText ==
    <<"u", "s", "e", " ", "s", "u", "b", "p", "r", "o", "c", "e", "s", "s",
      ".", "P", "o", "p", "e", "n">>

\* the definitions the language model of ArchitectAgent can describe, as
\* description, system_prompt_template and module: a plain one with and
\* without a module binding, and three that carry a dangerous text
ArchitectChoices ==
    {<<HelperText, PromptText, "agents.x">>,
     <<HelperText, PromptText, "">>,
     <<HelperText, RmPrompt, "agents.x">>,
     <<UpperRmText, PromptText, "agents.x">>,
     <<PopenText, PromptText, "agents.x">>}

\* MemoryEngine.list_agent_definitions, ORDER BY created_at ASC: the lists
\* the query can return, rows of one created_at in any order
list_agent_definitions(defs) ==
    {[k \in DOMAIN defs |-> defs[f[k]]] :
        f \in {g \in [DOMAIN defs -> DOMAIN defs] :
                /\ \A a, b \in DOMAIN defs : a # b => g[a] # g[b]
                /\ \A a, b \in DOMAIN defs :
                      a < b => defs[g[a]].created_at <= defs[g[b]].created_at}}

\* target_id of an input_payload: none, the id of a definition, another id
TargetIds(defs) == {NullId, UnknownId} \cup {defs[k].id : k \in DOMAIN defs}

\* the candidate of ValidatorAgent, CriticAgent and CodegenAgent in a
\* non-empty list: the definition with the target_id, else defs[-1]; a
\* sequence of one definition, or of none for a target_id not found
Candidate(listed, target_id) ==
    IF target_id # NullId
    THEN SelectSeq(listed, LAMBDA d : d.id = target_id)
    ELSE <<listed[Len(listed)]>>

\* the result of a save made inside try/except
Saved(defs, candidate, ts) == save_agent_definition(defs, candidate, ts)

\* ArchitectAgent._run_impl: a new definition, draft and not active
ArchitectRun ==
    /\ steps < MaxGovSteps
    /\ Len(agent_definitions) < MaxDefs
    /\ \E c \in ArchitectChoices, k \in 1 .. MaxDefs, ts \in Stamps :
          LET definition ==
                AgentDefinition(ids + 1, Name(k), c[1], Config(c[2], c[3]),
                                NullStamp, FALSE, NullId, "draft")
          IN  /\ SaveRaises(agent_definitions, definition) => ts = now
              /\ agent_definitions' =
                    Saved(agent_definitions, definition, ts)
              /\ now' = ts
              /\ op' = [name |-> "architect_agent", candidates |-> {ids + 1}]
    /\ ids' = ids + 1
    /\ steps' = steps + 1
    /\ UNCHANGED <<turn_vars, registry, conversations, events, memory_items>>

\* the five checks of ValidatorAgent; the type is "python" and the name has
\* no space in every definition of the model
Valid(candidate, min_description_len, require_prompt) ==
    /\ candidate.config.module # ""
    /\ Len(Strip(candidate.description)) >= min_description_len
    /\ require_prompt =>
            Len(Strip(candidate.config.system_prompt_template)) >= 10

\* a ValidatorAgent that moves a valid candidate to test from any state
ValidatorRun_FromAnyState ==
    /\ steps < MaxGovSteps
    /\ \E listed \in list_agent_definitions(agent_definitions),
          target_id \in TargetIds(agent_definitions),
          auto_promote \in BOOLEAN, min_description_len \in {0, 20},
          require_prompt \in {TRUE} :
            IF listed = <<>> \/ Candidate(listed, target_id) = <<>>
            THEN /\ UNCHANGED agent_definitions
                 /\ op' = [name |-> "validator_agent", candidates |-> {}]
            ELSE LET candidate == Candidate(listed, target_id)[1]
                 IN  /\ agent_definitions' =
                            IF /\ Valid(candidate, min_description_len,
                                        require_prompt)
                               /\ auto_promote
                            THEN Saved(agent_definitions,
                                    [candidate EXCEPT
                                        !.lifecycle_state = "test",
                                        !.is_active = FALSE], now)
                            ELSE agent_definitions
                     /\ op' = [name |-> "validator_agent",
                               candidates |-> {candidate.id},
                               auto_promote_to_test |-> auto_promote,
                               min_description_len |-> min_description_len,
                               require_prompt |-> require_prompt,
                               status |-> SUCCESS,
                               stop_for_user_input |-> FALSE]
    /\ steps' = steps + 1
    /\ UNCHANGED <<turn_vars, registry, conversations, events, memory_items, ids, now>>

\* ValidatorAgent._run_impl: draft -> test for a valid candidate when
\* auto_promote_to_test is set
ValidatorRun ==
    /\ steps < MaxGovSteps
    /\ \E listed \in list_agent_definitions(agent_definitions),
          target_id \in TargetIds(agent_definitions),
          auto_promote \in BOOLEAN, min_description_len \in {0, 20},
          require_prompt \in {TRUE} :
            IF listed = <<>> \/ Candidate(listed, target_id) = <<>>
            THEN /\ UNCHANGED agent_definitions
                 /\ op' = [name |-> "validator_agent", candidates |-> {}]
            ELSE LET candidate == Candidate(listed, target_id)[1]
                 IN  /\ agent_definitions' =
                            IF /\ Valid(candidate, min_description_len,
                                        require_prompt)
                               /\ auto_promote
                               /\ candidate.lifecycle_state = "draft"
                            THEN Saved(agent_definitions,
                                    [candidate EXCEPT
                                        !.lifecycle_state = "test",
                                        !.is_active = FALSE], now)
                            ELSE agent_definitions
                     /\ op' = [name |-> "validator_agent",
                               candidates |-> {candidate.id},
                               auto_promote_to_test |-> auto_promote,
                               min_description_len |-> min_description_len,
                               require_prompt |-> require_prompt,
                               status |-> SUCCESS,
                               stop_for_user_input |-> FALSE]
    /\ steps' = steps + 1
    /\ UNCHANGED <<turn_vars, registry, conversations, events, memory_items, ids, now>>

\* json.dumps of an alert, of which the model keeps the agent entry
AlertTexts ==
    <<"{agent: agent_0}", "{agent: agent_1}", "{agent: agent_2}",
      "{agent: agent_3}", "{agent: agent_4}">>

AlertJson(name) == AlertTexts[name[2] + 1]

\* json.dumps of the last review, of which the model keeps security_ok
ReviewJson(security_ok) ==
    IF security_ok THEN "{security_ok: true}" ELSE "{security_ok: false}"

\* the text SecurityReviewAgent scans: name, description and the string
\* values of config joined by newlines; of the string values of config the
\* model gives a content to system_prompt_template
DefinitionText(d) ==
    Join(<<NameText(d.name), d.description, d.config.system_prompt_template>>)

\* the hits of the lowered text of every definition the model can hold,
\* computed once
HitsOf ==
    [full_text \in {Join(<<NameText(Name(k)), c[1], c[2]>>) :
                        k \in 1 .. MaxDefs, c \in ArchitectChoices}
        |-> Hits(Lower(full_text))]

\* candidates of SecurityReviewAgent: the target, all, or the last
SecurityCandidates(listed, target_id, scan_all) ==
    IF target_id # NullId
    THEN SelectSeq(listed, LAMBDA d : d.id = target_id)
    ELSE IF scan_all THEN listed
    ELSE <<listed[Len(listed)]>>

\* candidate["security_flags"]["dangerous_keywords"] = hits: the dict with
\* one more key
WithSecurityFlags(candidate, hits) ==
    [f \in DOMAIN candidate \cup {"security_flags"} |->
        IF f = "security_flags" THEN [dangerous_keywords |-> hits]
        ELSE candidate[f]]

\* one pass of the loop over the candidates; st holds the definitions, the
\* memory items and the id counter
ReviewOne(candidate, st, ts) ==
    LET hits == HitsOf[DefinitionText(candidate)]
        flagged == hits # {}
        items == IF flagged
                 THEN store_item(st.items, st.ids + 1, "global",
                                 "procedural", "security_alert",
                                 AlertJson(candidate.name), ts)
                 ELSE st.items
        n == IF flagged THEN st.ids + 1 ELSE st.ids
    IN  [defs |-> IF flagged
                  THEN Saved(st.defs,
                             [WithSecurityFlags(candidate, hits) EXCEPT
                                    !.lifecycle_state = "draft",
                                    !.is_active = FALSE], ts)
                  ELSE st.defs,
         items |-> store_item(items, n + 1, "conversation", "procedural",
                              "security_review_last", ReviewJson(~flagged),
                              ts),
         ids |-> n + 1]

RECURSIVE ReviewLoop(_, _, _)
ReviewLoop(candidates, st, ts) ==
    IF candidates = <<>> THEN st
    ELSE ReviewLoop(Tail(candidates), ReviewOne(Head(candidates), st, ts), ts)

\* SecurityReviewAgent._run_impl; the memory items it writes carry the
\* reading of the clock, which no agent of this section reads back
SecurityReviewRun ==
    /\ steps < MaxGovSteps
    /\ \E listed \in list_agent_definitions(agent_definitions),
          target_id \in TargetIds(agent_definitions), scan_all \in BOOLEAN,
          ts \in {now} :
            IF listed = <<>>
               \/ SecurityCandidates(listed, target_id, scan_all) = <<>>
            THEN /\ UNCHANGED <<agent_definitions, memory_items, ids, now>>
                 /\ op' = [name |-> "security_review_agent",
                           candidates |-> {}]
            ELSE LET candidates ==
                        SecurityCandidates(listed, target_id, scan_all)
                     st == ReviewLoop(candidates,
                                [defs |-> agent_definitions,
                                 items |-> memory_items, ids |-> ids], ts)
                 IN  /\ agent_definitions' = st.defs
                     /\ memory_items' = st.items
                     /\ ids' = st.ids
                     /\ now' = ts
                     /\ op' = [name |-> "security_review_agent",
                               candidates |->
                                  {candidates[k].id : k \in DOMAIN candidates}]
    /\ steps' = steps + 1
    /\ UNCHANGED <<turn_vars, registry, conversations, events>>

\* force_state of an input_payload of CriticAgent
ForceStates == {Null, "active", "deprecated"}

\* a promotion that activates the definition it moves to test
CriticOutcome_ActivateInTest(prev_state, prev_active, force_state, promote_to_active) ==
    IF force_state # Null
    THEN [lifecycle_state |-> force_state,
          is_active |-> force_state = "active"]
    ELSE IF promote_to_active
    THEN IF prev_state \notin {"test", "active"}
         THEN [lifecycle_state |-> "test", is_active |-> TRUE]
         ELSE [lifecycle_state |-> "active", is_active |-> TRUE]
    ELSE [lifecycle_state |-> prev_state, is_active |-> prev_active]

\* new_state and new_active of CriticAgent
CriticOutcome(prev_state, prev_active, force_state, promote_to_active) ==
    IF force_state # Null
    THEN [lifecycle_state |-> force_state,
          is_active |-> force_state = "active"]
    ELSE IF promote_to_active
    THEN IF prev_state \notin {"test", "active"}
         THEN [lifecycle_state |-> "test", is_active |-> FALSE]
         ELSE [lifecycle_state |-> "active", is_active |-> TRUE]
    ELSE [lifecycle_state |-> prev_state, is_active |-> prev_active]

\* CriticAgent._run_impl (agents/architect_agent.py): the candidate saved
\* with the new state
CriticRun ==
    /\ steps < MaxGovSteps
    /\ \E listed \in list_agent_definitions(agent_definitions),
          target_id \in TargetIds(agent_definitions),
          force_state \in ForceStates, promote_to_active \in BOOLEAN :
            IF listed = <<>> \/ Candidate(listed, target_id) = <<>>
            THEN /\ UNCHANGED agent_definitions
                 /\ op' = [name |-> "critic_agent", candidates |-> {}]
            ELSE LET candidate == Candidate(listed, target_id)[1]
                     new == CriticOutcome(candidate.lifecycle_state,
                                          candidate.is_active, force_state,
                                          promote_to_active)
                 IN  /\ agent_definitions' =
                            Saved(agent_definitions,
                                  [candidate EXCEPT
                                     !.lifecycle_state = new.lifecycle_state,
                                     !.is_active = new.is_active], now)
                     /\ op' = [name |-> "critic_agent",
                               candidates |-> {candidate.id}]
    /\ steps' = steps + 1
    /\ UNCHANGED <<turn_vars, registry, conversations, events, memory_items, ids, now>>

\* MemoryEngine.find_items_by_key: positions of the rows with the key
find_items_by_key(items, key) == Matching(items, key, Null, Null)

\* CuratorAgent._run_impl raises AttributeError at al.content.get or
\* c.get, content being the str of the row, as soon as there is a definition
\* and a security_alert or critic_suggestion item
CuratorRaises(defs, items) ==
    /\ defs # <<>>
    /\ \/ find_items_by_key(items, "security_alert") # {}
       \/ find_items_by_key(items, "critic_suggestion") # {}

\* CuratorAgent._load_diagnostics: item.as_dict() raises for every item and
\* the item is skipped, so no agent has metrics
LoadDiagnostics(items) == {}

\* CuratorAgent._run_impl: without alerts and suggestions the transitions
\* left are those driven by the metrics of an agent, and no agent has any
CuratorRun ==
    /\ steps < MaxGovSteps
    /\ agent_definitions' =
            IF CuratorRaises(agent_definitions, memory_items)
            THEN agent_definitions
            ELSE [k \in DOMAIN agent_definitions |->
                    IF agent_definitions[k].name
                            \in LoadDiagnostics(memory_items)
                    THEN [agent_definitions[k] EXCEPT
                            !.lifecycle_state = "deprecated"]
                    ELSE agent_definitions[k]]
    /\ op' = [name |-> "curator_agent",
              candidates |-> {},
              raised |-> CuratorRaises(agent_definitions, memory_items)]
    /\ steps' = steps + 1
    /\ UNCHANGED <<turn_vars, registry, conversations, events, memory_items, ids, now>>

\* CodegenAgent._run_impl: a missing module binding is derived from the
\* name and the definition saved again
CodegenRun ==
    /\ steps < MaxGovSteps
    /\ \E listed \in list_agent_definitions(agent_definitions),
          target_id \in TargetIds(agent_definitions) :
            IF listed = <<>> \/ Candidate(listed, target_id) = <<>>
            THEN /\ UNCHANGED agent_definitions
                 /\ op' = [name |-> "codegen_agent", candidates |-> {}]
            ELSE LET candidate == Candidate(listed, target_id)[1]
                 IN  /\ agent_definitions' =
                            IF candidate.config.module = ""
                            THEN Saved(agent_definitions,
                                    [candidate EXCEPT
                                        !.config.module = "agents.x"], now)
                            ELSE agent_definitions
                     /\ op' = [name |-> "codegen_agent",
                               candidates |-> {candidate.id}]
    /\ steps' = steps + 1
    /\ UNCHANGED <<turn_vars, registry, conversations, events, memory_items, ids, now>>

NextGov ==
    \/ ArchitectRun
    \/ ValidatorRun
    \/ SecurityReviewRun
    \/ CriticRun
    \/ CuratorRun
    \/ CodegenRun

SpecGov == Init /\ [][NextGov]_vars

(***************************************************************************)
(* A governance agent of one conversation between its read of the          *)
(* definitions and its save, SecurityReviewAgent running in another        *)
(***************************************************************************)
\* the agents that save the candidate they read (CuratorAgent saves nothing
\* as the code stands)
SavingAgents == {"validator_agent", "critic_agent", "codegen_agent"}

\* the conversation of the governance agent before the agent has read
NoRead == [pc |-> "idle", agent |-> "", candidate |-> <<>>, save |-> <<>>,
           items_read |-> 0]

\* the dict a ValidatorAgent saves for the candidate it read, none when it
\* does not promote
ValidatorSave(candidate, auto_promote, min_description_len, require_prompt) ==
    IF /\ Valid(candidate, min_description_len, require_prompt)
       /\ auto_promote
       /\ candidate.lifecycle_state = "draft"
    THEN <<[candidate EXCEPT !.lifecycle_state = "test",
                             !.is_active = FALSE]>>
    ELSE <<>>

\* the dict a CriticAgent saves for the candidate it read
CriticSave(candidate, force_state, promote_to_active) ==
    LET new == CriticOutcome(candidate.lifecycle_state, candidate.is_active,
                             force_state, promote_to_active)
    IN  <<[candidate EXCEPT !.lifecycle_state = new.lifecycle_state,
                            !.is_active = new.is_active]>>

\* the dict a CodegenAgent saves for the candidate it read, none when the
\* module binding is there
CodegenSave(candidate) ==
    IF candidate.config.module = ""
    THEN <<[candidate EXCEPT !.config.module = "agents.x"]>>
    ELSE <<>>

\* a store holding one definition, as ArchitectAgent, ValidatorAgent and
\* CriticAgent leave it: draft, test, or active and in use
InitRace ==
    /\ pc = "idle"
    /\ turn = 0
    /\ plan = NoPlan
    /\ events = <<>>
    /\ agent_runs = {}
    /\ ids = 1
    /\ next_task = 0
    /\ run = NoRun
    /\ tasks_executed = 0
    /\ user_visible_response = <<>>
    /\ stop_here = FALSE
    /\ invocations = 0
    /\ returned = NotReturned
    /\ messages = <<>>
    /\ message_log = <<>>
    /\ emotional_state = EmotionalState
    /\ memory_items = <<>>
    /\ \E c \in ArchitectChoices,
          s \in {<<"draft", FALSE>>, <<"test", FALSE>>, <<"active", TRUE>>} :
            agent_definitions =
                <<AgentDefinition(1, Name(1), c[1], Config(c[2], c[3]), 0,
                                  s[2], NullId, s[1])>>
    /\ now = 0
    /\ registry = StartRegistry
    /\ conversations = <<NoRead>>
    /\ op = NoOp
    /\ steps = 0

\* the first part of _run_impl of a ValidatorAgent, CriticAgent or
\* CodegenAgent: list_agent_definitions, the candidate, the dict to save
GovRead ==
    /\ steps < MaxGovSteps
    /\ conversations[1].pc = "idle"
    /\ \E listed \in list_agent_definitions(agent_definitions),
          target_id \in TargetIds(agent_definitions), agent \in SavingAgents,
          auto_promote \in BOOLEAN, force_state \in ForceStates,
          promote_to_active \in BOOLEAN :
        /\ listed # <<>>
        /\ Candidate(listed, target_id) # <<>>
        /\ agent = "validator_agent" =>
                force_state = Null /\ ~promote_to_active
        /\ agent = "critic_agent" => ~auto_promote
        /\ agent = "codegen_agent" =>
                force_state = Null /\ ~promote_to_active /\ ~auto_promote
        /\ LET candidate == Candidate(listed, target_id)[1]
           IN  conversations' =
                    <<[pc |-> "read", agent |-> agent,
                       candidate |-> <<candidate>>,
                       save |-> IF agent = "validator_agent"
                                THEN ValidatorSave(candidate, auto_promote,
                                                   0, TRUE)
                                ELSE IF agent = "critic_agent"
                                THEN CriticSave(candidate, force_state,
                                                promote_to_active)
                                ELSE CodegenSave(candidate),
                       items_read |-> Len(memory_items)]>>
        /\ op' = [name |-> "read", agent |-> agent]
    /\ steps' = steps + 1
    /\ UNCHANGED <<turn_vars, registry, events, memory_items, ids, now,
                   agent_definitions>>

\* the rest of that _run_impl: save_agent_definition of the dict
GovSave ==
    /\ steps < MaxGovSteps
    /\ conversations[1].pc = "read"
    /\ agent_definitions' =
            IF conversations[1].save = <<>> THEN agent_definitions
            ELSE Saved(agent_definitions, conversations[1].save[1], now)
    /\ conversations' = <<NoRead>>
    /\ op' = [name |-> "save", agent |-> conversations[1].agent]
    /\ steps' = steps + 1
    /\ UNCHANGED <<turn_vars, registry, events, memory_items, ids, now>>

NextRace ==
    \/ GovRead
    \/ SecurityReviewRun
    \/ GovSave

SpecRace == InitRace /\ [][NextRace]_vars

(***************************************************************************)
(* The emotional engine called directly (core/emotion.py)                  *)
(***************************************************************************)
MaxEmotionSteps == 4   \* calls made on the engine

\* a state with the eight [0,1] dimensions at c and the mood at m
StateAt(c, m) ==
    [curiosity |-> c, fatigue |-> c, frustration |-> c, confidence |-> c,
     mood |-> m, energy |-> c, playfulness |-> c, social_need |-> c,
     learning_drive |-> c]

\* in-range states a context can hold: the defaults, and every dimension at
\* its lowest, middle or highest value
EmotionStates ==
    {EmotionalState}
    \cup {StateAt(c, m) : c \in {0, Unit \div 2, Unit}, m \in {-Unit, 0, Unit}}

\* agent names of the runs the engine is told about
EmotionAgentNames ==
    RequirementsNames \cup AnalysisPlannerNames \cup ChatAgentNames
    \cup {"ghost_agent"}

InitEmotion ==
    /\ pc = "idle"
    /\ turn = 0
    /\ plan = NoPlan
    /\ events = <<>>
    /\ agent_runs = {}
    /\ ids = 0
    /\ next_task = 0
    /\ run = NoRun
    /\ tasks_executed = 0
    /\ user_visible_response = <<>>
    /\ stop_here = FALSE
    /\ invocations = 0
    /\ returned = NotReturned
    /\ messages = <<>>
    /\ message_log = <<>>
    /\ emotional_state \in EmotionStates
    /\ memory_items = <<>>
    /\ agent_definitions = <<>>
    /\ now = 0
    /\ registry = StartRegistry
    /\ conversations = <<>>
    /\ op = NoOp
    /\ steps = 0

\* a call of apply_decay_between_turns
ApplyDecay ==
    /\ steps < MaxEmotionSteps
    /\ emotional_state' = apply_decay_between_turns(emotional_state)
    /\ op' = [name |-> "apply_decay_between_turns"]
    /\ steps' = steps + 1
    /\ UNCHANGED <<registry, conversations, pc, turn, plan, events, agent_runs, ids, next_task, run,
                   tasks_executed, user_visible_response, stop_here,
                   invocations, returned, messages, message_log,
                   memory_items, agent_definitions, now>>

\* a call of update_on_agent_run for a run of any agent and status
UpdateOnAgentRun ==
    /\ steps < MaxEmotionSteps
    /\ \E a \in EmotionAgentNames, st \in {SUCCESS, FAILURE} :
            /\ emotional_state' =
                    update_on_agent_run(emotional_state,
                        [NoRun EXCEPT !.agent_name = a, !.status = st])
            /\ op' = [name |-> "update_on_agent_run", agent_name |-> a,
                      status |-> st]
    /\ steps' = steps + 1
    /\ UNCHANGED <<registry, conversations, pc, turn, plan, events, agent_runs, ids, next_task, run,
                   tasks_executed, user_visible_response, stop_here,
                   invocations, returned, messages, message_log,
                   memory_items, agent_definitions, now>>

NextEmotion ==
    \/ ApplyDecay
    \/ UpdateOnAgentRun

SpecEmotion == InitEmotion /\ [][NextEmotion]_vars

(***************************************************************************)
(* The planner: Router.build_plan over MetaRouterAgent (core/router.py,    *)
(* agents/meta_router_agent.py), with the store it reads                   *)
(***************************************************************************)
MaxPlannerSteps == 3   \* calls made in a behaviour of the planner

\* thresholds of the metrics trigger, rates and levels in thousandths
BadTotalRuns == 5
BadFailureRate == 600
GovernanceFrustration == 400

\* max_steps of the meta-planner: its default and its limits
DefaultMaxSteps == 8
LeastMaxSteps == 1
MostMaxSteps == 20

\* texts of the user
HelloText ==
    <<"c", "i", "a", "o">>

RefactorText ==
    <<"R", "E", "F", "A", "C", "T", "O", "R", " ", "n", "o", "w">>

ChurnText ==
    <<"a", "n", "a", "l", "i", "z", "z", "a", " ", "c", "h", "u", "r", "n">>

ProfileText ==
    <<"p", "r", "o", "f", "i", "l", "o", " ", "u", "t", "e", "n", "t", "e">>

\* a text with the keywords of two rules, that of the later rule first
MixedText ==
    <<"c", "h", "u", "r", "n", " ", "s", "c", "h", "e", "m", "a">>

UserTexts == {HelloText, RefactorText, ChurnText, ProfileText, MixedText}

\* user_last of a context without messages
NoText == <<>>

\* context.messages[-1].content if context.messages else ""
UserLast(msgs) == IF msgs = <<>> THEN NoText ELSE msgs[Len(msgs)].content

\* any(kw in text for kw in kws)
AnyIn(kws, text) == \E kw \in kws : Contains(kw, text)

\* gov_keywords of _detect_governance_intent
gov_keywords ==
    {<<"n", "u", "o", "v", "o", " ", "a", "g", "e", "n", "t">>,
     <<"n", "u", "o", "v", "o", " ", "a", "g", "e", "n", "t", "e">>,
     <<"c", "r", "e", "a", " ", "u", "n", " ", "a", "g", "e", "n", "t">>,
     <<"c", "r", "e", "a", " ", "u", "n", " ", "a", "g", "e", "n", "t", "e">>,
     <<"m", "i", "g", "l", "i", "o", "r", "a", " ", "l", "'", "a", "g", "e",
       "n", "t">>,
     <<"m", "i", "g", "l", "i", "o", "r", "a", " ", "l", "'", "a", "g", "e",
       "n", "t", "e">>,
     <<"r", "e", "f", "a", "c", "t", "o", "r">>,
     <<"r", "i", "f", "a", "t", "t", "o", "r", "i", "z", "z", "a">>,
     <<"r", "i", "f", "a", "t", "t", "o", "r", "i", "z", "z", "a", "r", "e">>,
     <<"m", "i", "g", "l", "i", "o", "r", "a", " ", "i", "l", " ", "c", "o",
       "d", "i", "c", "e">>,
     <<"o", "t", "t", "i", "m", "i", "z", "z", "a", " ", "i", "l", " ", "s",
       "i", "s", "t", "e", "m", "a">>,
     <<"g", "o", "v", "e", "r", "n", "a", "n", "c", "e">>,
     <<"a", "r", "c", "h", "i", "t", "e", "t", "t", "u", "r", "a">>,
     <<"a", "u", "t", "o", "-", "m", "i", "g", "l", "i", "o", "r", "a", "m",
       "e", "n", "t", "o">>,
     <<"s", "e", "l", "f", " ", "i", "m", "p", "r", "o", "v", "e", "m", "e",
       "n", "t">>,
     <<"s", "e", "l", "f", "-", "i", "m", "p", "r", "o", "v", "e", "m", "e",
       "n", "t">>}

\* the social commands for which build_plan takes the heuristic plan at once
ExplicitCommands ==
    {<<"u", "s", "e", "r", "_", "p", "r", "o", "f", "i", "l", "e", "_", "a",
       "g", "e", "n", "t">>,
     <<"p", "r", "o", "f", "i", "l", "o", " ", "u", "t", "e", "n", "t", "e">>,
     <<"p", "r", "o", "f", "i", "l", "o", " ", "i", "n", "t", "e", "r", "n",
       "o">>,
     <<"a", "g", "g", "i", "o", "r", "n", "a", " ", "i", "l", " ", "m", "i",
       "o", " ", "p", "r", "o", "f", "i", "l", "o">>,
     <<"p", "r", "e", "f", "e", "r", "e", "n", "c", "e", "_", "l", "e", "a",
       "r", "n", "e", "r", "_", "a", "g", "e", "n", "t">>,
     <<"i", "m", "p", "a", "r", "a", " ", "l", "e", " ", "m", "i", "e", " ",
       "p", "r", "e", "f", "e", "r", "e", "n", "z", "e">>,
     <<"i", "m", "p", "a", "r", "a", " ", "l", "e", " ", "p", "r", "e", "f",
       "e", "r", "e", "n", "z", "e">>,
     <<"a", "g", "g", "i", "o", "r", "n", "a", " ", "l", "e", " ", "m", "i",
       "e", " ", "p", "r", "e", "f", "e", "r", "e", "n", "z", "e">>,
     <<"c", "u", "r", "i", "o", "s", "i", "t", "y", "_", "q", "u", "e", "s",
       "t", "i", "o", "n", "_", "a", "g", "e", "n", "t">>,
     <<"f", "a", "m", "m", "i", " ", "d", "o", "m", "a", "n", "d", "e", " ",
       "p", "e", "r", "s", "o", "n", "a", "l", "i">>,
     <<"f", "a", "m", "m", "i", " ", "1", " ", "o", " ", "2", " ", "d", "o",
       "m", "a", "n", "d", "e", " ", "p", "e", "r", "s", "o", "n", "a", "l",
       "i">>,
     <<"f", "a", "m", "m", "i", " ", "q", "u", "a", "l", "c", "h", "e", " ",
       "d", "o", "m", "a", "n", "d", "a", " ", "s", "u", " ", "d", "i", " ",
       "m", "e">>}

\* the rules of Router._build_heuristic_plan in their order: a rule applies
\* when each of its groups has a keyword in the text; agents are the
\* agent_name of the tasks it adds
HeuristicRules ==
    <<[groups |-> <<{<<"u", "s", "e", "r", "_", "p", "r", "o", "f", "i", "l",
                     "e", "_", "a", "g", "e", "n", "t">>,
                   <<"p", "r", "o", "f", "i", "l", "o", " ", "u", "t", "e",
                     "n", "t", "e">>,
                   <<"p", "r", "o", "f", "i", "l", "o", " ", "i", "n", "t",
                     "e", "r", "n", "o">>,
                   <<"a", "g", "g", "i", "o", "r", "n", "a", " ", "i", "l",
                     " ", "m", "i", "o", " ", "p", "r", "o", "f", "i", "l",
                     "o">>}>>,
       agents |-> <<"user_profile_agent">>],
      [groups |-> <<{<<"p", "r", "e", "f", "e", "r", "e", "n", "c", "e", "_",
                     "l", "e", "a", "r", "n", "e", "r", "_", "a", "g", "e",
                     "n", "t">>,
                   <<"i", "m", "p", "a", "r", "a", " ", "l", "e", " ", "m",
                     "i", "e", " ", "p", "r", "e", "f", "e", "r", "e", "n",
                     "z", "e">>,
                   <<"i", "m", "p", "a", "r", "a", " ", "l", "e", " ", "p",
                     "r", "e", "f", "e", "r", "e", "n", "z", "e">>,
                   <<"a", "g", "g", "i", "o", "r", "n", "a", " ", "l", "e",
                     " ", "m", "i", "e", " ", "p", "r", "e", "f", "e", "r",
                     "e", "n", "z", "e">>}>>,
       agents |-> <<"preference_learner_agent">>],
      [groups |-> <<{<<"c", "u", "r", "i", "o", "s", "i", "t", "y", "_", "q",
                     "u", "e", "s", "t", "i", "o", "n", "_", "a", "g", "e",
                     "n", "t">>,
                   <<"f", "a", "m", "m", "i", " ", "d", "o", "m", "a", "n",
                     "d", "e", " ", "p", "e", "r", "s", "o", "n", "a", "l",
                     "i">>,
                   <<"f", "a", "m", "m", "i", " ", "1", " ", "o", " ", "2",
                     " ", "d", "o", "m", "a", "n", "d", "e", " ", "p", "e",
                     "r", "s", "o", "n", "a", "l", "i">>,
                   <<"f", "a", "m", "m", "i", " ", "q", "u", "a", "l", "c",
                     "h", "e", " ", "d", "o", "m", "a", "n", "d", "a", " ",
                     "s", "u", " ", "d", "i", " ", "m", "e">>}>>,
       agents |-> <<"curiosity_question_agent">>],
      [groups |-> <<{<<"d", "a", "t", "a", "b", "a", "s", "e">>,
                   <<"s", "c", "h", "e", "m", "a">>,
                   <<"t", "a", "b", "e", "l", "l", "a">>,
                   <<"t", "a", "b", "e", "l", "l", "e">>}>>,
       agents |-> <<"database_designer_agent", "explanation_agent">>],
      [groups |-> <<{<<"c", "h", "u", "r", "n">>,
                   <<"m", "o", "d", "e", "l", "l", "o">>,
                   <<"p", "r", "e", "d", "i", "c", "t">>,
                   <<"p", "r", "e", "v", "e", "d", "e", "r", "e">>,
                   <<"c", "l", "a", "s", "s", "i", "f", "i", "c", "a", "z",
                     "i", "o", "n", "e">>}>>,
       agents |-> <<"r_analysis_agent", "explanation_agent">>],
      [groups |-> <<{<<"s", "t", "a", "t", "o", " ", "d", "e", "l", " ", "p",
                     "c">>,
                   <<"s", "t", "a", "t", "o", " ", "d", "e", "l", " ", "c",
                     "o", "m", "p", "u", "t", "e", "r">>,
                   <<"s", "t", "a", "t", "o", " ", "h", "a", "r", "d", "w",
                     "a", "r", "e">>,
                   <<"h", "a", "r", "d", "w", "a", "r", "e">>,
                   <<"t", "e", "m", "p", "e", "r", "a", "t", "u", "r", "e">>,
                   <<"t", "e", "m", "p", "e", "r", "a", "t", "u", "r", "a">>,
                   <<"c", "p", "u">>,
                   <<"r", "a", "m">>,
                   <<"d", "i", "s", "c", "o">>,
                   <<"v", "r", "a", "m">>,
                   <<"g", "p", "u">>}>>,
       agents |-> <<"hardware_agent">>],
      [groups |-> <<{<<"m", "e", "m", "o", "r", "i", "a">>},
{<<"r", "i", "a", "s", "s", "u", "m", "i">>,
                   <<"a", "r", "c", "h", "i", "v", "i", "a">>,
                   <<"c", "o", "m", "p", "a", "t", "t", "a">>,
                   <<"r", "i", "a", "s", "s", "u", "n", "t", "o">>}>>,
       agents |-> <<"archivist_agent">>],
      [groups |-> <<{<<"c", "o", "m", "e", " ", "s", "t", "a", "i">>,
                   <<"c", "o", "m", "e", " ", "t", "i", " ", "s", "e", "n",
                     "t", "i">>,
                   <<"c", "o", "m", "e", " ", "v", "i", " ", "s", "e", "n",
                     "t", "i", "t", "e">>,
                   <<"s", "t", "a", "t", "o", " ", "e", "m", "o", "t", "i",
                     "v", "o">>,
                   <<"s", "t", "a", "t", "o", " ", "i", "n", "t", "e", "r",
                     "n", "o">>,
                   <<"c", "o", "m", "e", " ", "v", "a", " ", "d", "e", "n",
                     "t", "r", "o">>,
                   <<"c", "o", "m", "e", " ", "v", "a", " ", "d", "e", "n",
                     "t", "r", "o", " ", "d", "i", " ", "t", "e">>}>>,
       agents |-> <<"state_explainer_agent">>],
      [groups |-> <<{<<"r", "i", "c", "o", "r", "d", "a", "t", "i", " ", "c",
                     "h", "e">>,
                   <<"r", "i", "c", "o", "r", "d", "a", " ", "c", "h", "e">>,
                   <<"s", "a", "l", "v", "a", " ", "i", "n", " ", "m", "e",
                     "m", "o", "r", "i", "a">>,
                   <<"m", "e", "m", "o", "r", "i", "z", "z", "a">>,
                   <<"m", "e", "m", "o", "r", "i", "z", "z", "a", "r", "e">>,
                   <<"a", "n", "n", "o", "t", "a">>,
                   <<"s", "e", "g", "n", "a">>,
                   <<"p", "r", "e", "n", "d", "i", " ", "n", "o", "t", "a">>}>>,
       agents |-> <<"memory_agent">>],
      [groups |-> <<{<<"c", "o", "n", "t", "e", "s", "t", "o", " ", "p", "r",
                     "o", "g", "e", "t", "t", "o">>,
                   <<"c", "o", "n", "t", "e", "s", "t", "o", " ", "d", "e",
                     "l", " ", "p", "r", "o", "g", "e", "t", "t", "o">>,
                   <<"r", "i", "a", "s", "s", "u", "m", "i", " ", "i", "l",
                     " ", "p", "r", "o", "g", "e", "t", "t", "o">>}>>,
       agents |-> <<"project_context_agent">>],
      [groups |-> <<{<<"e", "d", "a">>,
                   <<"a", "n", "a", "l", "i", "s", "i", " ", "e", "s", "p",
                     "l", "o", "r", "a", "t", "i", "v", "a">>,
                   <<"e", "s", "p", "l", "o", "r", "a", "t", "i", "v", "a">>}>>,
       agents |-> <<"r_eda_agent", "explanation_agent">>],
      [groups |-> <<{<<"n", "u", "o", "v", "o", " ", "a", "g", "e", "n", "t",
                     "e">>,
                   <<"n", "u", "o", "v", "i", " ", "a", "g", "e", "n", "t">>}>>,
       agents |-> <<"architect_agent", "validator_agent", "security_review_agent", "critic_agent">>],
      [groups |-> <<{<<"m", "i", " ", "c", "h", "i", "a", "m", "o">>,
                   <<"s", "o", "n", "o", " ", "n", "a", "t", "o">>,
                   <<"l", "a", "v", "o", "r", "o", " ", "a">>,
                   <<"l", "a", "v", "o", "r", "o", " ", "a", "l">>,
                   <<"l", "a", "v", "o", "r", "o", " ", "p", "r", "e", "s",
                     "s", "o">>,
                   <<"m", "i", "a", " ", "f", "i", "g", "l", "i", "a">>,
                   <<"m", "i", "o", " ", "f", "i", "g", "l", "i", "o">>,
                   <<"m", "i", " ", "p", "i", "a", "c", "e">>,
                   <<"n", "o", "n", " ", "m", "i", " ", "p", "i", "a", "c",
                     "e">>,
                   <<"o", "d", "i", "o">>,
                   <<"a", "d", "o", "r", "o">>}>>,
       agents |-> <<"preference_learner_agent", "curiosity_question_agent">>],
      [groups |-> <<>>,
       agents |-> <<"chat_agent">>]>>

\* the rules of MetaRouterAgent._fallback_heuristic_plan in their order
FallbackRules ==
    <<[groups |-> <<{<<"d", "a", "t", "a", "b", "a", "s", "e">>,
                   <<"s", "c", "h", "e", "m", "a">>,
                   <<"t", "a", "b", "e", "l", "l", "a">>,
                   <<"t", "a", "b", "e", "l", "l", "e">>}>>,
       agents |-> <<"database_designer_agent", "explanation_agent">>],
      [groups |-> <<{<<"c", "h", "u", "r", "n">>,
                   <<"m", "o", "d", "e", "l", "l", "o">>,
                   <<"p", "r", "e", "d", "i", "c", "t">>,
                   <<"p", "r", "e", "v", "e", "d", "e", "r", "e">>,
                   <<"c", "l", "a", "s", "s", "i", "f", "i", "c", "a", "z",
                     "i", "o", "n", "e">>}>>,
       agents |-> <<"r_analysis_agent", "explanation_agent">>],
      [groups |-> <<{<<"e", "d", "a">>,
                   <<"a", "n", "a", "l", "i", "s", "i", " ", "e", "s", "p",
                     "l", "o", "r", "a", "t", "i", "v", "a">>,
                   <<"e", "s", "p", "l", "o", "r", "a", "t", "i", "v", "a">>}>>,
       agents |-> <<"r_eda_agent", "explanation_agent">>],
      [groups |-> <<{<<"m", "i", " ", "c", "h", "i", "a", "m", "o">>,
                   <<"s", "o", "n", "o", " ", "n", "a", "t", "o">>,
                   <<"m", "i", " ", "p", "i", "a", "c", "e">>,
                   <<"n", "o", "n", " ", "m", "i", " ", "p", "i", "a", "c",
                     "e">>,
                   <<"m", "i", "a", " ", "f", "i", "g", "l", "i", "a">>,
                   <<"m", "i", "o", " ", "f", "i", "g", "l", "i", "o">>}>>,
       agents |-> <<"preference_learner_agent", "curiosity_question_agent">>],
      [groups |-> <<>>,
       agents |-> <<"requirements_agent", "analysis_planner_agent", "explanation_agent">>]>>

\* the agents of the last rule with keywords that applies, the default
\* rule when none does
FirstMatch_LastRule(rules, text) ==
    LET applies(k) == \A g \in DOMAIN rules[k].groups :
                            AnyIn(rules[k].groups[g], Lower(text))
        keyed == {k \in 1 .. (Len(rules) - 1) : applies(k)}
        last == IF keyed = {} THEN Len(rules)
                ELSE CHOOSE k \in keyed : \A j \in keyed : j <= k
    IN  rules[last].agents

\* the agents of the first rule that applies to the lowercased text
FirstMatch(rules, text) ==
    LET applies(k) == \A g \in DOMAIN rules[k].groups :
                            AnyIn(rules[k].groups[g], Lower(text))
        first == CHOOSE k \in DOMAIN rules :
                    applies(k) /\ \A j \in 1 .. (k - 1) : ~applies(j)
    IN  rules[first].agents

\* what the texts of the model contain, computed once
HasGovKeyword ==
    [t \in UserTexts \cup {NoText} |-> AnyIn(gov_keywords, Lower(t))]

HasExplicitCommand ==
    [t \in UserTexts \cup {NoText} |-> AnyIn(ExplicitCommands, Lower(t))]

HeuristicAgents ==
    [t \in UserTexts \cup {NoText} |-> FirstMatch(HeuristicRules, t)]

FallbackAgents ==
    [t \in UserTexts \cup {NoText} |-> FirstMatch(FallbackRules, t)]

\* seq[:n]
Truncate(seq, n) == SubSeq(seq, 1, IF Len(seq) < n THEN Len(seq) ELSE n)

\* ids: "<plan_id>_step_<idx>", an id written by the language model, a
\* uuid of new_id(), and a step without "id"
StepId(plan_id, idx) == <<"step", plan_id, idx>>
ModelId(k) == <<"model", 0, k>>
Uuid(n) == <<"uuid", n, 0>>
NoStepId == <<"none", 0, 0>>

\* governance_target_agent absent from the input
NoTarget == <<"none", 0>>

\* context.id of the conversation, and the key of its requirements sheet
ContextId == "c1"
SheetKey(conv_id) == IF conv_id = "c1" THEN "requirements_sheet:c1" ELSE Null

\* json.dumps(requirements_sheet)
SheetJson == "{schema_version: 1}"

\* the entries "failures" of the diagnostics a DiagnosticsAgent run carries
FailureEntry(agent_name, total_runs, failure_rate) ==
    [agent_name |-> agent_name, total_runs |-> total_runs,
     failure_rate |-> failure_rate]

DiagnosticsPayloads ==
    {{},
     {FailureEntry(Name(0), BadTotalRuns, BadFailureRate)},
     {FailureEntry(Name(0), BadTotalRuns - 1, BadFailureRate)},
     {FailureEntry(Name(0), BadTotalRuns, BadFailureRate - 1)},
     {FailureEntry(Name(0), BadTotalRuns - 1, Unit),
      FailureEntry(Name(1), BadTotalRuns + 1, Unit)}}

\* MemoryEngine.get_last_diagnostics: the newest run of diagnostics_agent by
\* started_at; runs of one started_at come in any order.  The diagnostics
\* the call can return, {} standing for None as well
get_last_diagnostics(rows) ==
    LET D == {r \in rows : r.agent_name = "diagnostics_agent"}
    IN  IF D = {} THEN {{}}
        ELSE {r.diagnostics :
                r \in {x \in D : \A y \in D : y.started_at <= x.started_at}}

\* MemoryEngine.get_agent_metrics_from_diagnostics: failure_rate and
\* total_runs by agent, entries without a name skipped; the metrics the
\* call can return.  Entries of slow agents carry no total_runs and no
\* failure_rate and are left out
get_agent_metrics_from_diagnostics(rows) ==
    {{FailureEntry(f.agent_name, f.total_runs, f.failure_rate) :
            f \in {x \in diag : x.agent_name # <<>>}} :
        diag \in get_last_diagnostics(rows)}

\* agents with total_runs >= 5 and failure_rate >= 0.6
BadCandidates(metrics) ==
    {m.agent_name :
        m \in {x \in metrics : /\ x.total_runs >= BadTotalRuns
                               /\ x.failure_rate >= BadFailureRate}}

\* _detect_governance_intent without the test of the frustration
detect_governance_intent_NoGate(text, inp, metrics, frustration) ==
    IF inp.force_governance
    THEN [mode |-> TRUE, reason |-> "force_governance_flag",
          targets |-> {inp.governance_target_agent} \ {NoTarget}]
    ELSE IF HasGovKeyword[text]
    THEN [mode |-> TRUE, reason |-> "explicit_user_governance_request",
          targets |-> {}]
    ELSE IF BadCandidates(metrics) = {}
    THEN [mode |-> FALSE, reason |-> "", targets |-> {}]
    ELSE [mode |-> TRUE, reason |-> "high_failure_rate_agents",
          targets |-> BadCandidates(metrics)]

\* MetaRouterAgent._detect_governance_intent
detect_governance_intent(text, inp, metrics, frustration) ==
    IF inp.force_governance
    THEN [mode |-> TRUE, reason |-> "force_governance_flag",
          targets |-> {inp.governance_target_agent} \ {NoTarget}]
    ELSE IF HasGovKeyword[text]
    THEN [mode |-> TRUE, reason |-> "explicit_user_governance_request",
          targets |-> {}]
    ELSE IF BadCandidates(metrics) = {}
    THEN [mode |-> FALSE, reason |-> "", targets |-> {}]
    ELSE IF frustration < GovernanceFrustration
    THEN [mode |-> FALSE, reason |-> "", targets |-> {}]
    ELSE [mode |-> TRUE, reason |-> "high_failure_rate_agents",
          targets |-> BadCandidates(metrics)]

\* MetaRouterAgent._get_security_targets: the "agent" of the alerts whose
\* content parses; contents that do not parse are skipped
get_security_targets(items) ==
    {Name(k - 1) :
        k \in {j \in DOMAIN AlertTexts :
                \E i \in find_items_by_key(items, "security_alert") :
                    items[i].content = AlertTexts[j]}}

\* the steps of MetaRouterAgent._build_governance_plan
GovernancePipeline ==
    <<"architect_agent", "security_review_agent", "validator_agent",
      "critic_agent", "curator_agent", "codegen_agent">>

\* steps without "id" for the agents of a pipeline or of a rule
NoIdSteps(agents) ==
    [k \in DOMAIN agents |-> [id |-> NoStepId, agent |-> agents[k]]]

\* MetaRouterAgent._has_requirements_sheet: the answers the reading of the
\* sheet of the conversation can give; a context carries no project id
has_requirements_sheet(items, conv_id) ==
    {c \notin {Null, ""} :
        c \in load_item_content(items, SheetKey(conv_id), "conversation",
                                "procedural")}

\* the plans the language model of the meta-planner can write: none, steps
\* without ids, steps with one id, steps with ids of their own, and a step
\* without agent
ModelPlans ==
    {<<>>,
     <<[id |-> NoStepId, agent |-> "analysis_planner_agent"],
       [id |-> NoStepId, agent |-> "explanation_agent"]>>,
     <<[id |-> ModelId(1), agent |-> "analysis_planner_agent"],
       [id |-> ModelId(1), agent |-> "explanation_agent"]>>,
     <<[id |-> ModelId(1), agent |-> "analysis_planner_agent"],
       [id |-> ModelId(2), agent |-> "explanation_agent"]>>,
     <<[id |-> NoStepId, agent |-> ""],
       [id |-> NoStepId, agent |-> "chat_agent"]>>}

\* step.get("id") or "<plan_id>_step_<idx>", steps without agent dropped
Enriched(plan_list, plan_id) ==
    SelectSeq([k \in DOMAIN plan_list |->
                    [id |-> IF plan_list[k].id # NoStepId
                            THEN plan_list[k].id
                            ELSE StepId(plan_id, k),
                     agent |-> plan_list[k].agent]],
              LAMBDA s : s.agent # "")

\* max(1, min(int(input_payload.get("max_steps", 8)), 20))
MaxStepsOf(inp) ==
    IF inp.max_steps < LeastMaxSteps THEN LeastMaxSteps
    ELSE IF inp.max_steps > MostMaxSteps THEN MostMaxSteps
    ELSE inp.max_steps

\* what Router reads in the output of a run that failed
FailedPayload ==
    [governance_mode |-> FALSE, governance_reason |-> "",
     governance_targets |-> {}, meta_plan |-> <<>>, plan_id |-> NullId]

\* MetaRouterAgent._run_impl: the output of a run that returns
MetaRouterImpl(inp, text, metrics, frustration, items, has_sheet, out, n) ==
    LET det == detect_governance_intent(text, inp, metrics, frustration)
        governance_targets == det.targets \cup get_security_targets(items)
    IN  IF det.mode
        THEN [governance_mode |-> TRUE,
              governance_reason |-> det.reason,
              governance_targets |-> governance_targets,
              meta_plan |->
                Enriched(NoIdSteps(Truncate(GovernancePipeline,
                                            MaxStepsOf(inp))), n),
              plan_id |-> n]
        ELSE IF ~has_sheet
        THEN [governance_mode |-> FALSE, governance_reason |-> "",
              governance_targets |-> {},
              meta_plan |-> <<[id |-> StepId(n, 1),
                               agent |-> "requirements_agent"]>>,
              plan_id |-> n]
        ELSE [governance_mode |-> FALSE, governance_reason |-> "",
              governance_targets |-> {},
              meta_plan |->
                Enriched(Truncate(IF out = <<>>
                                  THEN NoIdSteps(Truncate(FallbackAgents[text],
                                                          MaxStepsOf(inp)))
                                  ELSE out,
                                  MaxStepsOf(inp)), n),
              plan_id |-> n]

\* the input payloads of a direct run of the meta-planner: empty, with
\* max_steps below its least value, and forced without and with a target
MetaInputs ==
    {[force_governance |-> FALSE, governance_target_agent |-> NoTarget,
      max_steps |-> DefaultMaxSteps],
     [force_governance |-> FALSE, governance_target_agent |-> NoTarget,
      max_steps |-> 0],
     [force_governance |-> TRUE, governance_target_agent |-> NoTarget,
      max_steps |-> DefaultMaxSteps],
     [force_governance |-> TRUE, governance_target_agent |-> Name(3),
      max_steps |-> DefaultMaxSteps]}

\* input_payload={} of Router._build_meta_router_plan
EmptyInput ==
    [force_governance |-> FALSE, governance_target_agent |-> NoTarget,
     max_steps |-> DefaultMaxSteps]

\* the model outputs _run_impl reads: only the planning of a request
\* outside governance with a requirements sheet asks the language model
OutputsFor(inp, text, metrics, frustration, has_sheet) ==
    IF detect_governance_intent(text, inp, metrics, frustration).mode
       \/ ~has_sheet
    THEN {<<>>}
    ELSE ModelPlans

\* Plan(id, tasks, metadata)
PlanOf(id, tasks, source, governance_mode, governance_targets) ==
    [id |-> id, tasks |-> tasks,
     metadata |-> [source |-> source, governance_mode |-> governance_mode,
                   governance_targets |-> governance_targets]]

\* tasks with ids of new_id() for the agents named, steps without agent
\* skipped
FreshTasks(agents, n) ==
    SelectSeq([k \in DOMAIN agents |-> Task(Uuid(n + k), agents[k], {}, 0)],
              LAMBDA t : t.agent_name # "")

\* Router._build_heuristic_plan
build_heuristic_plan(text, n) ==
    PlanOf(n + 1, FreshTasks(HeuristicAgents[text], n + 1), "heuristic",
           "safe_default", {})

\* the agents of the plans the language model of Router._build_llm_plan can
\* write; <<>> stands for an output that is not a plan as well
RouterModelPlans ==
    {<<>>, <<"analysis_planner_agent">>, <<"", "chat_agent">>}

\* Router._build_llm_plan returning the plan it built even when no step of
\* the model gave a task
build_llm_plan_KeepsEmpty(text, agents, n) ==
    PlanOf(n + 1, FreshTasks(agents, n + 1), "llm", "standard", {})

\* Router._build_llm_plan, followed by the heuristic plan when it raises
build_llm_plan(text, agents, n) ==
    IF FreshTasks(agents, n + 1) = <<>>
    THEN build_heuristic_plan(text, n + 1)
    ELSE PlanOf(n + 1, FreshTasks(agents, n + 1), "llm", "standard", {})

\* Router._build_meta_router_plan: the steps converted into tasks keeping
\* their ids; a step carries an id, so step.get("id") or new_id() is the id
build_meta_router_plan(payload) ==
    PlanOf(payload.plan_id,
           [k \in DOMAIN payload.meta_plan |->
                Task(payload.meta_plan[k].id, payload.meta_plan[k].agent,
                     {}, 0)],
           "meta_router",
           IF payload.governance_mode THEN "true" ELSE "false",
           payload.governance_targets)

\* the count of ids handed out once a plan is built: the meta-planner takes
\* two, a plan its id and one for each task made with new_id()
NewestId(p, n) ==
    LET S == {n + 2, p.id} \cup
             {p.tasks[k].id[2] :
                k \in {j \in DOMAIN p.tasks : p.tasks[j].id[1] = "uuid"}}
    IN  CHOOSE m \in S : \A x \in S : x <= m

\* Router.build_plan
build_plan(text, payload, agents, n) ==
    IF HasExplicitCommand[text] THEN build_heuristic_plan(text, n)
    ELSE IF payload.meta_plan # <<>> THEN build_meta_router_plan(payload)
    ELSE build_llm_plan(text, agents, n + 2)

\* the initial states of a conversation the planner serves: the emotional
\* state at a level of frustration below, just below and at the threshold
InitPlanner ==
    /\ pc = "idle"
    /\ turn = 0
    /\ plan = NoPlan
    /\ events = <<>>
    /\ agent_runs = {}
    /\ ids = 0
    /\ next_task = 0
    /\ run = NoRun
    /\ tasks_executed = 0
    /\ user_visible_response = <<>>
    /\ stop_here = FALSE
    /\ invocations = 0
    /\ returned = NotReturned
    /\ messages = <<>>
    /\ message_log = <<>>
    /\ emotional_state \in
            {[EmotionalState EXCEPT !.frustration = f] :
                f \in {0, GovernanceFrustration - 1, GovernanceFrustration}}
    /\ memory_items = <<>>
    /\ agent_definitions = <<>>
    /\ now = 0
    /\ registry = StartRegistry
    /\ conversations = <<>>
    /\ op = NoOp
    /\ steps = 0

\* ConversationContext.add_message of a message of the user
UserMessage ==
    /\ steps < MaxPlannerSteps
    /\ \E t \in UserTexts : messages' = add_message(messages, "user", t)
    /\ op' = [name |-> "add_message"]
    /\ steps' = steps + 1
    /\ UNCHANGED <<registry, conversations, pc, turn, plan, events, agent_runs, ids, next_task, run,
                   tasks_executed, user_visible_response, stop_here,
                   invocations, returned, message_log, emotional_state,
                   memory_items, agent_definitions, now>>

\* the run of a DiagnosticsAgent logged with its diagnostics
LogDiagnosticsRun ==
    /\ steps < MaxPlannerSteps
    /\ \E d \in DiagnosticsPayloads, ts \in Stamps :
            /\ agent_runs' = agent_runs \cup
                    {[id |-> ids + 1, agent_name |-> "diagnostics_agent",
                      started_at |-> ts, diagnostics |-> d]}
            /\ now' = ts
    /\ ids' = ids + 1
    /\ op' = [name |-> "log_agent_run"]
    /\ steps' = steps + 1
    /\ UNCHANGED <<registry, conversations, pc, turn, plan, events, next_task, run, tasks_executed,
                   user_visible_response, stop_here, invocations, returned,
                   messages, message_log, emotional_state, memory_items,
                   agent_definitions>>

\* the alert SecurityReviewAgent stores for a definition it flags
StoreSecurityAlert ==
    /\ steps < MaxPlannerSteps
    /\ \E name \in {Name(1), Name(2)} :
            memory_items' = store_item(memory_items, ids + 1, "global",
                                       "procedural", "security_alert",
                                       AlertJson(name), now)
    /\ ids' = ids + 1
    /\ op' = [name |-> "store_item"]
    /\ steps' = steps + 1
    /\ UNCHANGED <<turn_vars, registry, conversations, events, agent_definitions, now>>

\* RequirementsAgent._run_impl: with a text of the user the sheet is stored
\* under the key of the conversation, without one nothing is stored
RequirementsRun ==
    /\ steps < MaxPlannerSteps
    /\ memory_items' =
            IF \E k \in DOMAIN messages : messages[k].role = "user"
            THEN store_item(memory_items, ids + 1, "conversation",
                            "procedural", SheetKey(ContextId), SheetJson,
                            now)
            ELSE memory_items
    /\ ids' = ids + 2
    /\ op' = [name |-> "requirements_agent"]
    /\ steps' = steps + 1
    /\ UNCHANGED <<turn_vars, registry, conversations, events, agent_definitions, now>>

\* Agent.run of the meta-planner called with an input payload: raises
\* stands for _run_impl raising (the store failing to read the recent
\* messages, a step of the model that is no mapping), which gives a run of
\* status failure.  The event PLAN_CREATED of _run_impl is never logged:
\* reading context.conversation_id raises and the exception is dropped
MetaRouterRun ==
    /\ steps < MaxPlannerSteps
    /\ \E inp \in MetaInputs,
          metrics \in get_agent_metrics_from_diagnostics(agent_runs),
          has_sheet \in has_requirements_sheet(memory_items, ContextId),
          raises \in BOOLEAN :
        \E out \in OutputsFor(inp, UserLast(messages), metrics,
                              emotional_state.frustration, has_sheet) :
            op' = [name |-> "meta_router_agent",
                   input |-> inp,
                   metrics |-> metrics,
                   has_sheet |-> has_sheet,
                   status |-> IF raises THEN FAILURE ELSE SUCCESS,
                   payload |->
                     IF raises THEN FailedPayload
                     ELSE MetaRouterImpl(inp, UserLast(messages), metrics,
                                         emotional_state.frustration,
                                         memory_items, has_sheet, out,
                                         ids + 1)]
    /\ ids' = ids + 2
    /\ steps' = steps + 1
    /\ UNCHANGED <<turn_vars, registry, conversations, events, memory_items, agent_definitions, now>>

\* Router.build_plan for the context, the plan made context.plan
RouterBuildPlan ==
    /\ steps < MaxPlannerSteps
    /\ \E metrics \in get_agent_metrics_from_diagnostics(agent_runs),
          has_sheet \in has_requirements_sheet(memory_items, ContextId),
          raises \in BOOLEAN, agents \in RouterModelPlans :
        \E out \in OutputsFor(EmptyInput, UserLast(messages), metrics,
                              emotional_state.frustration, has_sheet) :
            LET text == UserLast(messages)
                payload ==
                    IF raises THEN FailedPayload
                    ELSE MetaRouterImpl(EmptyInput, text, metrics,
                                        emotional_state.frustration,
                                        memory_items, has_sheet, out,
                                        ids + 1)
                built == build_plan(text, payload, agents, ids)
            IN  /\ plan' = built
                /\ op' = [name |-> "build_plan",
                          input |-> EmptyInput,
                          metrics |-> metrics,
                          has_sheet |-> has_sheet,
                          status |-> IF raises THEN FAILURE ELSE SUCCESS,
                          payload |-> payload]
                /\ ids' = NewestId(built, ids)
    /\ steps' = steps + 1
    /\ UNCHANGED <<registry, conversations, pc, turn, events, agent_runs, next_task, run,
                   tasks_executed, user_visible_response, stop_here,
                   invocations, returned, messages, message_log,
                   emotional_state, memory_items, agent_definitions, now>>

NextPlanner ==
    \/ UserMessage
    \/ LogDiagnosticsRun
    \/ StoreSecurityAlert
    \/ RequirementsRun
    \/ MetaRouterRun
    \/ RouterBuildPlan

SpecPlanner == InitPlanner /\ [][NextPlanner]_vars

(***************************************************************************)
(* The decay between turns and the planner (core/orchestrator.py 73-99,    *)
(* agents/meta_router_agent.py 128-165): handle_user_message hands         *)
(* context.emotional_state to build_plan after the decay, and the          *)
(* meta-planner tests its frustration.  The conversation starts with a     *)
(* frustration on either side of what decays to the threshold.             *)
(***************************************************************************)
\* frustrations the conversation starts with
StartFrustrations ==
    {(GovernanceFrustration * 10) \div 9, (GovernanceFrustration * 10) \div 9 + 1}

\* metrics of the last diagnostics: none, or an agent that fails often
DecayMetrics ==
    {{}, {FailureEntry(Name(0), BadTotalRuns, BadFailureRate)}}

InitDecay ==
    /\ pc = "idle"
    /\ turn = 0
    /\ plan = NoPlan
    /\ events = <<>>
    /\ agent_runs = {}
    /\ ids = 0
    /\ next_task = 0
    /\ run = NoRun
    /\ tasks_executed = 0
    /\ user_visible_response = <<>>
    /\ stop_here = FALSE
    /\ invocations = 0
    /\ returned = NotReturned
    /\ messages = <<>>
    /\ message_log = <<>>
    /\ \E f \in StartFrustrations :
            /\ emotional_state = [EmotionalState EXCEPT !.frustration = f]
            /\ conversations = <<[emotional_state |-> emotional_state]>>
    /\ memory_items = <<>>
    /\ agent_definitions = <<>>
    /\ now = 0
    /\ registry = StartRegistry
    /\ op = NoOp
    /\ steps = 0

\* orchestrator.py 95-99: build_plan(context, memory, emotional_state) with
\* the state of the context; the meta-planner's _detect_governance_intent
\* reads its frustration.  The tasks of the plan are left open.
DecayBuildPlan ==
    /\ pc = "build"
    /\ \E metrics \in DecayMetrics, ts \in TurnTaskLists :
            LET det == detect_governance_intent(HelloText, EmptyInput, metrics,
                                                emotional_state.frustration)
            IN  /\ plan' = [id |-> ids + 1, tasks |-> ts]
                /\ op' = [name |-> "build_plan", metrics |-> metrics,
                          frustration |-> emotional_state.frustration,
                          governance_mode |-> det.mode]
    /\ ids' = ids + 1
    /\ steps' = steps + 1
    /\ pc' = "log_plan"
    /\ UNCHANGED <<turn, events, agent_runs, next_task, run, tasks_executed,
                   user_visible_response, stop_here, invocations, returned,
                   messages, message_log, emotional_state, memory_items,
                   agent_definitions, now, registry, conversations>>

NextDecay ==
    \/ StartTurn(MaxTurns)
    \/ DecayBuildPlan
    \/ LogPlanCreated
    \/ Dispatch
    \/ CallAgent
    \/ LogAgentRun
    \/ CompleteTask
    \/ Finish

SpecDecay == InitDecay /\ [][NextDecay]_vars

\* C36: in every turn the decay between turns is applied once, when the turn
\* starts and before the plan is built; the state changes afterwards only by
\* the update of an agent run, never by a decay between two tasks; and the
\* planner's test of the frustration reads the decayed value: in the first
\* turn the decayed frustration of the state the conversation started with
C36_DecayOncePerTurn ==
    /\ [][turn' # turn =>
            /\ turn' = turn + 1
            /\ pc' = "build"
            /\ emotional_state' = apply_decay_between_turns(emotional_state)]_vars
    /\ [][(turn' = turn /\ emotional_state' # emotional_state) =>
            /\ pc = "exec"
            /\ run'.id # NullId
            /\ emotional_state' = update_on_agent_run(emotional_state, run')]_vars
    /\ [][(pc = "build" /\ pc' # "build") =>
            /\ op'.name = "build_plan"
            /\ op'.frustration = emotional_state.frustration
            /\ op'.governance_mode =
                    (/\ BadCandidates(op'.metrics) # {}
                     /\ emotional_state.frustration >= GovernanceFrustration)]_vars
    /\ [](turn = 1 /\ pc # "build" =>
            op.frustration =
                Times(conversations[1].emotional_state.frustration, 9, 10))

\* C36 witness: a first turn started at a frustration above the threshold
\* whose planner read the decayed value below it and planned no governance
\* for failing agents, and then ran its two tasks
C36_Witness ==
    /\ turn = 1
    /\ pc = "returned"
    /\ conversations[1].emotional_state.frustration >= GovernanceFrustration
    /\ op.name = "build_plan"
    /\ BadCandidates(op.metrics) # {}
    /\ op.frustration < GovernanceFrustration
    /\ ~op.governance_mode
    /\ invocations >= 2

(***************************************************************************)
(* Agents and their registry (core/agents_base.py, core/agent_loader.py,   *)
(* agents/agent_reload_agent.py)                                           *)
(***************************************************************************)
MaxRegistrySteps == 3  \* calls made on the agents and their registry

\* names of the agent classes of the packages
ClassNames == {"chat_agent", "meta_router_agent", "new_agent"}

\* EmotionDelta(frustration=0.1, confidence=-0.05)
FailureDelta == [EmotionDelta EXCEPT !.frustration = 100, !.confidence = -50]

\* what a call of _run_impl can do: return an AgentResult of either status
\* with its delta, return a value that is no AgentResult, raise an Exception
ImplOutcomes ==
    [kind : {"result"}, status : {SUCCESS, FAILURE},
     delta : {EmotionDelta, [EmotionDelta EXCEPT !.curiosity = 10]}]
    \cup [kind : {"not_agent_result", "raises"}, status : {SUCCESS},
          delta : {EmotionDelta}]

\* str(exc) for the exception of the except branch
ErrorText(outcome) ==
    IF outcome.kind = "not_agent_result"
    THEN "Agent _run_impl must return AgentResult"
    ELSE "boom"

\* Agent.run with the test of the type of the result made before the try
run_of_CheckOutsideTry(agent_name, outcome, id) ==
    IF outcome.kind = "result"
    THEN [escaped |-> FALSE,
          run |-> [id |-> id, agent_name |-> agent_name,
                   status |-> outcome.status,
                   output_payload |-> [user_visible_message |-> "msg"],
                   emotion_delta |-> outcome.delta]]
    ELSE IF outcome.kind = "not_agent_result"
    THEN [escaped |-> TRUE, run |-> NoRun]
    ELSE [escaped |-> FALSE,
          run |-> [id |-> id, agent_name |-> agent_name, status |-> FAILURE,
                   output_payload |-> [error |-> ErrorText(outcome)],
                   emotion_delta |-> FailureDelta]]

\* Agent.run: the AgentRun built from the result, or built in the except
\* branch from the exception of _run_impl or of the test of the type
run_of(agent_name, outcome, id) ==
    IF outcome.kind = "result"
    THEN [escaped |-> FALSE,
          run |-> [id |-> id, agent_name |-> agent_name,
                   status |-> outcome.status,
                   output_payload |-> [user_visible_message |-> "msg"],
                   emotion_delta |-> outcome.delta]]
    ELSE [escaped |-> FALSE,
          run |-> [id |-> id, agent_name |-> agent_name, status |-> FAILURE,
                   output_payload |-> [error |-> ErrorText(outcome)],
                   emotion_delta |-> FailureDelta]]

\* AgentRegistry.register that replaces the instance of a name
register_Overwrite(reg, inst) ==
    [raised |-> FALSE,
     agents |-> [x \in DOMAIN reg \cup {inst.name} |->
                    IF x = inst.name THEN inst ELSE reg[x]]]

\* AgentRegistry.register: ValueError for a name already in _agents
register(reg, inst) ==
    IF inst.name \in DOMAIN reg
    THEN [raised |-> TRUE, agents |-> reg]
    ELSE [raised |-> FALSE,
          agents |-> [x \in DOMAIN reg \cup {inst.name} |->
                        IF x = inst.name THEN inst ELSE reg[x]]]

\* a module of a package: the agent classes in its __dict__ in their order
\* (a class with abstract methods cannot be instantiated), and the name of
\* the agent its body registers in ACTIVE_REGISTRY when it is executed, ""
\* for none
Module(classes, abstract, registers) ==
    [classes |-> classes, abstract |-> abstract, registers |-> registers]

\* the modules pkgutil.iter_modules finds in the packages: those of the
\* start, and those once a file with a new agent and a second class named
\* chat_agent has been added
PackageListings ==
    {<<Module(<<"chat_agent">>, {}, ""),
       Module(<<"meta_router_agent">>, {}, "meta_router_agent")>>,
     <<Module(<<"chat_agent">>, {}, ""),
       Module(<<"meta_router_agent">>, {}, "meta_router_agent"),
       Module(<<"base_agent", "new_agent", "chat_agent">>, {"base_agent"},
              "")>>}

\* the classes of a module from position k on instantiated and registered,
\* the exceptions of obj() and of register printed and dropped
RECURSIVE ScanClasses(_, _, _, _)
ScanClasses(reg, mod, k, made) ==
    IF k > Len(mod.classes) THEN reg
    ELSE ScanClasses(IF mod.classes[k] \in mod.abstract THEN reg
                     ELSE register(reg,
                                   Instance(mod.classes[k],
                                            <<made[1], made[2] + k>>)).agents,
                     mod, k + 1, made)

\* importlib.import_module of a module: its body runs when the module is
\* not yet in sys.modules (fresh), and its register call raises for a name
\* already registered, which fails the import
ImportRaises(reg, mod, fresh) ==
    fresh /\ mod.registers # "" /\ mod.registers \in DOMAIN reg

Imported(reg, mod, fresh, made) ==
    IF fresh /\ mod.registers # ""
    THEN register(reg, Instance(mod.registers, made)).agents
    ELSE reg

\* load_agents_from_packages from module k of the listing on; a module whose
\* import raises is skipped
RECURSIVE ScanModules(_, _, _, _, _)
ScanModules(reg, mods, fresh, k, call) ==
    IF k > Len(mods) THEN reg
    ELSE ScanModules(IF ImportRaises(reg, mods[k], k \in fresh) THEN reg
                     ELSE ScanClasses(Imported(reg, mods[k], k \in fresh,
                                               <<call, 10 * k>>),
                                      mods[k], 1, <<call, 10 * k>>),
                     mods, fresh, k + 1, call)

load_agents_from_packages(reg, mods, fresh, call) ==
    ScanModules(reg, mods, fresh, 1, call)

\* a process before any agent is registered
InitAgents ==
    /\ pc = "idle"
    /\ turn = 0
    /\ plan = NoPlan
    /\ events = <<>>
    /\ agent_runs = {}
    /\ ids = 0
    /\ next_task = 0
    /\ run = NoRun
    /\ tasks_executed = 0
    /\ user_visible_response = <<>>
    /\ stop_here = FALSE
    /\ invocations = 0
    /\ returned = NotReturned
    /\ messages = <<>>
    /\ message_log = <<>>
    /\ emotional_state = EmotionalState
    /\ memory_items = <<>>
    /\ agent_definitions = <<>>
    /\ now = 0
    /\ registry = [n \in {} |-> Instance(n, <<0, 0>>)]
    /\ conversations = <<>>
    /\ op = NoOp
    /\ steps = 0

\* a call of Agent.run on an agent
AgentRunCall ==
    /\ steps < MaxRegistrySteps
    /\ \E a \in ClassNames, o \in ImplOutcomes :
        LET r == run_of(a, o, ids + 1)
        IN  /\ run' = IF r.escaped THEN run ELSE r.run
            /\ op' = [name |-> "run", agent_name |-> a, outcome |-> o,
                      escaped |-> r.escaped]
    /\ ids' = ids + 1
    /\ steps' = steps + 1
    /\ UNCHANGED <<registry, conversations, pc, turn, plan, events, agent_runs, next_task,
                   tasks_executed, user_visible_response, stop_here,
                   invocations, returned, messages, message_log,
                   emotional_state, memory_items, agent_definitions, now>>

\* a call of AgentRegistry.register with a new instance of a class
Register ==
    /\ steps < MaxRegistrySteps
    /\ \E n \in ClassNames :
        LET r == register(registry, Instance(n, <<steps + 1, 0>>))
        IN  /\ registry' = r.agents
            /\ op' = [name |-> "register", agent_name |-> n,
                      raised |-> r.raised]
    /\ steps' = steps + 1
    /\ UNCHANGED <<turn_vars, conversations, events, ids, memory_items, agent_definitions,
                   now>>

\* a call of load_agents_from_packages(registry, packages), as at the start
\* of the process
LoadAgents ==
    /\ steps < MaxRegistrySteps
    /\ \E mods \in PackageListings :
        \E fresh \in SUBSET DOMAIN mods :
            registry' = load_agents_from_packages(registry, mods, fresh,
                                                  steps + 1)
    /\ op' = [name |-> "load_agents_from_packages"]
    /\ steps' = steps + 1
    /\ UNCHANGED <<turn_vars, conversations, events, ids, memory_items, agent_definitions,
                   now>>

\* Agent.run of AgentReloadAgent: a runtime reload scans the packages into
\* ACTIVE_REGISTRY; without one the request is stored for the next start
AgentReloadRun ==
    /\ steps < MaxRegistrySteps
    /\ \E mode \in {"runtime", "next_restart"}, dry_run \in BOOLEAN,
          mods \in PackageListings :
        \E fresh \in SUBSET DOMAIN mods :
            LET runtime_reloaded == mode = "runtime" /\ ~dry_run
            IN  /\ registry' =
                        IF runtime_reloaded
                        THEN load_agents_from_packages(registry, mods, fresh,
                                                       steps + 1)
                        ELSE registry
                /\ memory_items' =
                        IF mode = "next_restart"
                           \/ (mode = "runtime" /\ ~runtime_reloaded)
                        THEN store_item(memory_items, ids + 1, "global",
                                        "procedural", "pending_agent_reload",
                                        "reload", now)
                        ELSE memory_items
                /\ op' = [name |-> "agent_reload_agent", mode |-> mode,
                          dry_run |-> dry_run]
    /\ run' = run_of("agent_reload_agent",
                     [kind |-> "result", status |-> SUCCESS,
                      delta |-> EmotionDelta], ids + 2).run
    /\ ids' = ids + 2
    /\ steps' = steps + 1
    /\ UNCHANGED <<conversations, pc, turn, plan, events, agent_runs,
                   next_task, tasks_executed, user_visible_response,
                   stop_here, invocations, returned, messages, message_log,
                   emotional_state, agent_definitions, now>>

NextAgents ==
    \/ AgentRunCall
    \/ Register
    \/ LoadAgents
    \/ AgentReloadRun

SpecAgents == InitAgents /\ [][NextAgents]_vars

(***************************************************************************)
(* Concurrent conversations over one store, registry and emotional engine  *)
(* (core/orchestrator.py, core/emotion.py)                                 *)
(***************************************************************************)
MaxConvSteps == 12  \* steps made by the turns of the concurrent conversations

Conversations == {1, 2}

\* ConversationContext.id, the new_id() of start_conversation: the
\* correlation id of the turns of the conversation (line 69)
ContextIdOf(c) == IF c = 1 THEN "conv1" ELSE "conv2"

\* Orchestrator.start_conversation: a context of its own, with the local
\* variables of handle_user_message before its first turn
StartConversation(c) ==
    [context |-> [id |-> ContextIdOf(c), messages |-> <<>>, plan |-> NoPlan,
                  emotional_state |-> EmotionalState],
     pc |-> "idle", turn |-> 0, next_task |-> 0, run |-> NoRun,
     tasks_executed |-> 0, user_visible_response |-> <<>>,
     returned |-> NotReturned]

\* an event logged with the correlation id of the conversation
ConvEvent(c, ev) == [ev EXCEPT !.correlation_id = ContextIdOf(c)]

\* the plans the planner hands to a conversation: a step with one retry, a
\* step naming an agent the registry does not hold
ConvTaskLists ==
    {<<Task(1, "chat_agent", {}, 1)>>, <<Task(1, "ghost_agent", {}, 0)>>}

\* the runs Agent.run returns in a conversation: a success with its message,
\* with or without stop_for_user_input, and a failure
ConvRuns(id, agent_name) ==
    {r \in AgentRuns(id, agent_name) :
        \/ r.status = SUCCESS /\ r.user_visible_message = "msg"
        \/ r.status = FAILURE /\ ~r.stop_for_user_input}

\* what the turns of the concurrent conversations leave alone
single_vars == <<pc, turn, plan, next_task, run, tasks_executed,
                 user_visible_response, stop_here, invocations, returned,
                 messages, emotional_state, memory_items, agent_definitions,
                 now, registry>>

\* a step of handle_user_message made for conversation c
TurnStep(c, after) ==
    /\ steps < MaxConvSteps
    /\ conversations' = [conversations EXCEPT ![c] = after]
    /\ op' = [name |-> "turn", conversation |-> c]
    /\ steps' = steps + 1
    /\ UNCHANGED single_vars

InitConversations ==
    /\ pc = "idle"
    /\ turn = 0
    /\ plan = NoPlan
    /\ events = <<>>
    /\ agent_runs = {}
    /\ ids = 0
    /\ next_task = 0
    /\ run = NoRun
    /\ tasks_executed = 0
    /\ user_visible_response = <<>>
    /\ stop_here = FALSE
    /\ invocations = 0
    /\ returned = NotReturned
    /\ messages = <<>>
    /\ message_log = <<>>
    /\ emotional_state = EmotionalState
    /\ memory_items = <<>>
    /\ agent_definitions = <<>>
    /\ now = 0
    /\ registry = StartRegistry
    /\ conversations = [c \in Conversations |-> StartConversation(c)]
    /\ op = NoOp
    /\ steps = 0

\* lines 71-90 for conversation c
ConvStartTurn(c) ==
    LET conv == conversations[c]
    IN  /\ conv.pc \in {"idle", "returned", "raised"}
        /\ TurnStep(c, [conv EXCEPT
                !.context.emotional_state = apply_decay_between_turns(@),
                !.context.messages = add_message(@, "user", UserText),
                !.turn = @ + 1, !.next_task = 0, !.run = NoRun,
                !.tasks_executed = 0, !.user_visible_response = <<>>,
                !.returned = NotReturned, !.pc = "build"])
        /\ message_log' = log_message(message_log, Message("user", UserText))
        /\ events' = log_event(events,
                        ConvEvent(c, Event(REQUEST_RECEIVED, NullId, 0, FALSE,
                                           NullId, NullId, "")))
        /\ UNCHANGED <<agent_runs, ids>>

\* lines 95-100 for conversation c
ConvBuildPlan(c) ==
    LET conv == conversations[c]
    IN  /\ conv.pc = "build"
        /\ \/ \E ts \in ConvTaskLists :
                /\ TurnStep(c, [conv EXCEPT
                        !.context.plan = [id |-> ids + 1, tasks |-> ts],
                        !.pc = "log_plan"])
                /\ ids' = ids + 1
           \/ /\ TurnStep(c, [conv EXCEPT !.context.plan = NoPlan,
                                          !.pc = "log_plan"])
              /\ ids' = ids
        /\ UNCHANGED <<events, agent_runs, message_log>>

\* lines 103-148 for conversation c
ConvLogPlanCreated(c) ==
    LET conv == conversations[c]
        p == conv.context.plan
    IN  /\ conv.pc = "log_plan"
        /\ IF p # NoPlan
           THEN /\ events' = log_event(events,
                        ConvEvent(c, Event(PLAN_CREATED, p.id, Len(p.tasks),
                                           FALSE, NullId, NullId, "")))
                /\ TurnStep(c, [conv EXCEPT !.pc = "loop"])
                /\ UNCHANGED message_log
           ELSE /\ events' = log_event(events,
                        ConvEvent(c, Event(PLAN_CREATED, NullId, 0, TRUE,
                                           NullId, NullId, "")))
                /\ message_log' = log_message(message_log,
                                        Message("assistant", PlanFailure))
                /\ TurnStep(c, [conv EXCEPT
                        !.context.messages =
                            add_message(@, "assistant", PlanFailure),
                        !.pc = "returned", !.returned = PlanFailure])
        /\ UNCHANGED <<agent_runs, ids>>

\* lines 150-168 for conversation c
ConvDispatch(c) ==
    LET conv == conversations[c]
        p == conv.context.plan
    IN  /\ conv.pc = "loop"
        /\ IF conv.tasks_executed < max_tasks_per_turn /\ p # NoPlan
              /\ get_next_task(p.tasks) # 0
           THEN /\ events' = log_event(events,
                        ConvEvent(c, Event(TASK_ASSIGNED, p.id, 0, FALSE,
                                           p.tasks[get_next_task(p.tasks)].id,
                                           NullId, "")))
                /\ TurnStep(c, [conv EXCEPT
                        !.next_task = get_next_task(p.tasks), !.pc = "exec"])
           ELSE /\ UNCHANGED events
                /\ TurnStep(c, [conv EXCEPT !.pc = "finish"])
        /\ UNCHANGED <<agent_runs, ids, message_log>>

\* lines 209-233 for conversation c: the lookup in the shared registry, the
\* run of the shared agent, the update by the shared emotional engine of the
\* state of the context it is handed
ConvCallAgent(c) ==
    LET conv == conversations[c]
        t == conv.context.plan.tasks[conv.next_task]
    IN  /\ conv.pc = "exec"
        /\ IF t.agent_name \notin DOMAIN registry
           THEN /\ TurnStep(c, [conv EXCEPT !.pc = "raised"])
                /\ UNCHANGED ids
           ELSE /\ \E r \in ConvRuns(ids + 1, t.agent_name) :
                    TurnStep(c, [conv EXCEPT
                        !.context.plan.tasks[conv.next_task] = mark_running(@),
                        !.context.emotional_state = update_on_agent_run(@, r),
                        !.run = r, !.pc = "log_run"])
                /\ ids' = ids + 1
        /\ UNCHANGED <<events, agent_runs, message_log>>

\* line 236 for conversation c
ConvLogAgentRun(c) ==
    LET conv == conversations[c]
    IN  /\ conv.pc = "log_run"
        /\ agent_runs' = log_agent_run(agent_runs, conv.run)
        /\ TurnStep(c, [conv EXCEPT !.pc = "log_run_event"])
        /\ UNCHANGED <<events, ids, message_log>>

\* lines 238-290 and 174-182 for conversation c
ConvCompleteTask(c) ==
    LET conv == conversations[c]
        t == conv.context.plan.tasks[conv.next_task]
    IN  /\ conv.pc = "log_run_event"
        /\ events' = log_event(events,
                ConvEvent(c, Event(IF conv.run.status = SUCCESS
                                   THEN AGENT_RUN_COMPLETED
                                   ELSE AGENT_RUN_FAILED,
                                   NullId, 0, FALSE, t.id, conv.run.id,
                                   conv.run.status)))
        /\ TurnStep(c, [conv EXCEPT
                !.context.plan.tasks[conv.next_task] =
                    TaskAfterRun(@, conv.run),
                !.user_visible_response = @ \o UserMsg(conv.run),
                !.tasks_executed = @ + 1,
                !.pc = IF StopHere(conv.run) THEN "finish" ELSE "loop"])
        /\ UNCHANGED <<agent_runs, ids, message_log>>

\* lines 184-193 for conversation c
ConvFinish(c) ==
    LET conv == conversations[c]
        text == IF conv.user_visible_response = <<>> THEN Fallback
                ELSE conv.user_visible_response
    IN  /\ conv.pc = "finish"
        /\ message_log' = log_message(message_log, Message("assistant", text))
        /\ TurnStep(c, [conv EXCEPT
                !.context.messages = add_message(@, "assistant", text),
                !.returned = text, !.pc = "returned"])
        /\ UNCHANGED <<events, agent_runs, ids>>

NextConversations ==
    \E c \in Conversations :
        \/ ConvStartTurn(c)
        \/ ConvBuildPlan(c)
        \/ ConvLogPlanCreated(c)
        \/ ConvDispatch(c)
        \/ ConvCallAgent(c)
        \/ ConvLogAgentRun(c)
        \/ ConvCompleteTask(c)
        \/ ConvFinish(c)

SpecConversations == InitConversations /\ [][NextConversations]_vars

(***************************************************************************)
(* Two executions of a conversation that differ only in the emotion_delta  *)
(* of the runs the agents return                                           *)
(***************************************************************************)
MaxPairSteps == 2  \* steps made by the two executions

\* the two executions start from one emotional state
InitPair ==
    /\ pc = "idle"
    /\ turn = 0
    /\ plan = NoPlan
    /\ events = <<>>
    /\ agent_runs = {}
    /\ ids = 0
    /\ next_task = 0
    /\ run = NoRun
    /\ tasks_executed = 0
    /\ user_visible_response = <<>>
    /\ stop_here = FALSE
    /\ invocations = 0
    /\ returned = NotReturned
    /\ messages = <<>>
    /\ message_log = <<>>
    /\ emotional_state = EmotionalState
    /\ memory_items = <<>>
    /\ agent_definitions = <<>>
    /\ now = 0
    /\ registry = StartRegistry
    /\ \E s \in EmotionStates :
            conversations = <<[emotional_state |-> s],
                              [emotional_state |-> s]>>
    /\ op = NoOp
    /\ steps = 0

\* the start of a turn in both executions (orchestrator.py, lines 73-76)
PairDecay ==
    /\ steps < MaxPairSteps
    /\ conversations' =
            [c \in DOMAIN conversations |->
                [emotional_state |->
                    apply_decay_between_turns(
                        conversations[c].emotional_state)]]
    /\ op' = [name |-> "pair_decay"]
    /\ steps' = steps + 1
    /\ UNCHANGED <<turn_vars, registry, events, ids, memory_items,
                   agent_definitions, now, emotional_state>>

\* a task executed in both executions (orchestrator.py, lines 213-233): the
\* agent gives runs of one status, whose emotion_delta may differ, and the
\* engine updates the state of each execution with its run
PairRun ==
    /\ steps < MaxPairSteps
    /\ \E a \in EmotionAgentNames, o1 \in ImplOutcomes, o2 \in ImplOutcomes :
        LET r1 == run_of(a, o1, ids + 1).run
            r2 == run_of(a, o2, ids + 1).run
        IN  /\ r1.status = r2.status
            /\ conversations' =
                    <<[emotional_state |->
                        update_on_agent_run(conversations[1].emotional_state,
                                            r1)],
                      [emotional_state |->
                        update_on_agent_run(conversations[2].emotional_state,
                                            r2)]>>
            /\ op' = [name |-> "pair_run", agent_name |-> a,
                      status |-> r1.status,
                      deltas |-> <<r1.emotion_delta, r2.emotion_delta>>]
    /\ ids' = ids + 1
    /\ steps' = steps + 1
    /\ UNCHANGED <<turn_vars, registry, events, memory_items,
                   agent_definitions, now, emotional_state>>

NextPair ==
    \/ PairDecay
    \/ PairRun

SpecPair == InitPair /\ [][NextPair]_vars

(***************************************************************************)
(* Reading the event log of a turn                                         *)
(***************************************************************************)
TurnEnded == pc \in {"returned", "raised"}

\* index of the REQUEST_RECEIVED event that opened the current turn
LastRequest ==
    IF \E k \in DOMAIN events : events[k].type = REQUEST_RECEIVED
    THEN CHOOSE k \in DOMAIN events :
            /\ events[k].type = REQUEST_RECEIVED
            /\ \A j \in DOMAIN events :
                  events[j].type = REQUEST_RECEIVED => j <= k
    ELSE 1

\* the events logged during the current turn, in log order
TurnEvents ==
    IF events = <<>> THEN <<>> ELSE SubSeq(events, LastRequest, Len(events))

Count(evs, types) == Cardinality({k \in DOMAIN evs : evs[k].type \in types})

CountFor(evs, types, task_id) ==
    Cardinality({k \in DOMAIN evs :
                    evs[k].type \in types /\ evs[k].task_id = task_id})

RunEvents == {AGENT_RUN_COMPLETED, AGENT_RUN_FAILED}

\* C1: when the dispatch loop has picked a task (get_next_task returned it
\* and TASK_ASSIGNED is logged) the task is pending and every id of its
\* depends_on that names a task of the plan names a task that is done; so
\* a task depending on a task in error is never executed.
C1_PickedOnlyWhenDepsDone ==
    pc = "exec" =>
        /\ plan.tasks[next_task].status = PENDING
        /\ \A dep_id \in plan.tasks[next_task].depends_on :
              \/ FindTask(plan.tasks, dep_id) = 0
              \/ plan.tasks[FindTask(plan.tasks, dep_id)].status = DONE

\* the shape REQUEST_RECEIVED, PLAN_CREATED, (TASK_ASSIGNED, AGENT_RUN_*)*
\* with each pair carrying one task_id
TurnLogShape(evs) ==
    /\ Len(evs) >= 2
    /\ evs[1].type = REQUEST_RECEIVED
    /\ evs[2].type = PLAN_CREATED
    /\ Count(evs, {REQUEST_RECEIVED}) = 1
    /\ Count(evs, {PLAN_CREATED}) = 1
    /\ Len(evs) % 2 = 0
    /\ \A k \in 3 .. Len(evs) :
          IF k % 2 = 1
          THEN /\ evs[k].type = TASK_ASSIGNED
               /\ k + 1 <= Len(evs)
               /\ evs[k + 1].type \in RunEvents
               /\ evs[k + 1].task_id = evs[k].task_id
          ELSE evs[k].type \in RunEvents

\* C2: the events of a turn are, in log order, one REQUEST_RECEIVED, one
\* PLAN_CREATED, then pairs of a TASK_ASSIGNED immediately followed by the
\* AGENT_RUN_COMPLETED or AGENT_RUN_FAILED of the same task, for every plan
\* and every behaviour of the agents and of the registry lookup.
C2_TurnEventStream == TurnEnded => TurnLogShape(TurnEvents)

\* C3: handle_user_message never raises to its caller and always returns a
\* string, whatever the plan names and whatever the agents do.
C3_NeverRaises ==
    /\ pc # "raised"
    /\ pc = "returned" => returned # NotReturned

\* TASK_ASSIGNED events of the task at index i, in the current turn
Assigned(i) == CountFor(TurnEvents, {TASK_ASSIGNED}, plan.tasks[i].id)
Failed(i) == CountFor(TurnEvents, {AGENT_RUN_FAILED}, plan.tasks[i].id)
Completed(i) == CountFor(TurnEvents, {AGENT_RUN_COMPLETED}, plan.tasks[i].id)

\* position in the turn's log of the first TASK_ASSIGNED of the task at i
FirstAssigned(i) ==
    CHOOSE k \in DOMAIN TurnEvents :
        /\ TurnEvents[k].type = TASK_ASSIGNED
        /\ TurnEvents[k].task_id = plan.tasks[i].id
        /\ \A j \in DOMAIN TurnEvents :
              (TurnEvents[j].type = TASK_ASSIGNED
               /\ TurnEvents[j].task_id = plan.tasks[i].id) => k <= j

\* tasks assigned in the turn before the task at i was first assigned
AssignedBefore(i) ==
    Cardinality({j \in DOMAIN TurnEvents :
                    j < FirstAssigned(i) /\ TurnEvents[j].type = TASK_ASSIGNED})

\* the task at i has an agent and was dispatched, all its runs failed, the
\* budget left room for max_retries + 1 attempts of it and no run asked to
\* stop
AlwaysFailingWithinBudget(i) ==
    /\ plan.tasks[i].max_retries >= 0
    /\ plan.tasks[i].agent_name \in Registered
    /\ Assigned(i) >= 1
    /\ Completed(i) = 0
    /\ AssignedBefore(i) + plan.tasks[i].max_retries + 1 <= max_tasks_per_turn
    /\ ~stop_here

\* C4: a dispatched task with max_retries = N >= 0 whose agent fails on every
\* run is, budget permitting and without stop_for_user_input, assigned
\* exactly N+1 times in the turn, with N+1 AGENT_RUN_FAILED events, and ends
\* the turn in status error.
C4_RetryThenGiveUp ==
    TurnEnded =>
        \A i \in DOMAIN plan.tasks :
            AlwaysFailingWithinBudget(i) =>
                /\ Assigned(i) = plan.tasks[i].max_retries + 1
                /\ Failed(i) = plan.tasks[i].max_retries + 1
                /\ plan.tasks[i].status = ERROR

C4_Witness ==
    /\ pc = "returned"
    /\ \E i \in DOMAIN plan.tasks :
          /\ AlwaysFailingWithinBudget(i)
          /\ plan.tasks[i].max_retries = 2
          /\ Assigned(i) = 3
          /\ Failed(i) = 3
          /\ plan.tasks[i].status = ERROR

\* C5: in a turn the number of agent invocations, which is the number of
\* TASK_ASSIGNED events, never exceeds max_tasks_per_turn, and the dispatch
\* loop ends below that number only when no task is ready or a run set
\* stop_for_user_input.
C5_BudgetHonoured ==
    /\ invocations <= max_tasks_per_turn
    /\ Count(TurnEvents, {TASK_ASSIGNED}) <= max_tasks_per_turn
    /\ TurnEnded =>
          /\ Count(TurnEvents, {TASK_ASSIGNED}) = invocations
          /\ invocations < max_tasks_per_turn =>
                \/ stop_here
                \/ get_next_task(plan.tasks) = 0

\* _execute_task has returned for the run held in run
RunReturned == run # NoRun /\ pc \in {"loop", "finish", "returned", "raised"}

LastEvent == events[Len(events)]

\* C6 as stated: after a run with stop_for_user_input = true no further task
\* is assigned in the turn and the turn returns the text accumulated so far.
C6_StopReturnsAccumulated ==
    (RunReturned /\ run.stop_for_user_input) =>
        /\ pc \in {"finish", "returned"}
        /\ LastEvent.type \in RunEvents /\ LastEvent.run_id = run.id
        /\ pc = "returned" => returned = user_visible_response

\* C6 amended: after a run with stop_for_user_input = true (success or
\* failure, ready tasks and budget left or not) no further task is assigned
\* in the turn, and the turn returns the text accumulated so far, or the
\* fixed fallback text when no visible text was accumulated.
C6_StopEndsTurn ==
    (RunReturned /\ run.stop_for_user_input) =>
        /\ pc \in {"finish", "returned"}
        /\ LastEvent.type \in RunEvents /\ LastEvent.run_id = run.id
        /\ pc = "returned" =>
              returned = IF user_visible_response = <<>> THEN Fallback
                         ELSE user_visible_response

C6_Witness ==
    /\ pc = "returned"
    /\ run.stop_for_user_input
    /\ run.status = FAILURE
    /\ tasks_executed < max_tasks_per_turn
    /\ get_next_task(plan.tasks) # 0
    /\ returned = user_visible_response
    /\ LastEvent.run_id = run.id

\* a step that keeps the plan object and its task list
SamePlan == plan # NoPlan /\ plan'.id = plan.id

\* C7: a task is created pending; its status changes only pending -> running
\* (when executed), running -> done (successful run), running -> error
\* (failed run, no retry left) and running -> pending after a failed run with
\* retry_count < max_retries, retry_count then growing by exactly 1; a task
\* that is done or error never changes again.
C7_TaskLifecycle ==
    [][/\ plan'.id # plan.id =>
            \A i \in DOMAIN plan'.tasks :
                plan'.tasks[i].status = PENDING /\ plan'.tasks[i].retry_count = 0
       /\ SamePlan =>
            \A i \in DOMAIN plan.tasks :
                LET s == plan.tasks[i]
                    t == plan'.tasks[i]
                IN  \/ t = s
                    \/ /\ s.status = PENDING /\ t.status = RUNNING
                       /\ i = next_task /\ pc = "exec"
                       /\ t.retry_count = s.retry_count
                    \/ /\ s.status = RUNNING /\ t.status = DONE
                       /\ run.status = SUCCESS
                       /\ t.retry_count = s.retry_count
                    \/ /\ s.status = RUNNING /\ t.status = ERROR
                       /\ run.status = FAILURE
                       /\ ~(s.retry_count < s.max_retries)
                       /\ t.retry_count = s.retry_count
                    \/ /\ s.status = RUNNING /\ t.status = PENDING
                       /\ run.status = FAILURE
                       /\ s.retry_count < s.max_retries
                       /\ t.retry_count = s.retry_count + 1]_vars

C7_Witness ==
    /\ pc = "returned"
    /\ Len(plan.tasks) = 2
    /\ plan.tasks[1].status = DONE /\ plan.tasks[1].retry_count = 1
    /\ plan.tasks[2].status = ERROR /\ plan.tasks[2].retry_count = 0

\* C8: for every task of every plan the planner can produce, retry_count
\* never decreases during a turn and never exceeds max_retries + 1.
C8_RetryCountBounded ==
    /\ [](\A i \in DOMAIN plan.tasks :
            plan.tasks[i].retry_count <= plan.tasks[i].max_retries + 1)
    /\ [][SamePlan =>
            \A i \in DOMAIN plan.tasks :
                plan'.tasks[i].retry_count >= plan.tasks[i].retry_count]_vars

\* C9: every AGENT_RUN_COMPLETED or AGENT_RUN_FAILED event of the log refers
\* to a row of agent_runs that exists, with the status the event reports.
C9_RunRowBeforeEvent ==
    \A k \in DOMAIN events :
        events[k].type \in RunEvents =>
            /\ \E row \in agent_runs :
                  row.id = events[k].run_id /\ row.status = events[k].status
            /\ events[k].type = AGENT_RUN_COMPLETED <=> events[k].status = SUCCESS

C9_Witness ==
    /\ Count(events, {AGENT_RUN_COMPLETED}) >= 1
    /\ Count(events, {AGENT_RUN_FAILED}) >= 2
    /\ Cardinality(agent_runs) = 3

\* the turn (1, 2, ...) in which the event at position k was logged
TurnOf(k) ==
    Cardinality({j \in 1 .. k : events[j].type = REQUEST_RECEIVED})

\* position of the last PLAN_CREATED logged before position k, 0 = none
PlanCreatedBefore(k) ==
    IF \E j \in 1 .. k : events[j].type = PLAN_CREATED
    THEN CHOOSE j \in 1 .. k :
            /\ events[j].type = PLAN_CREATED
            /\ \A m \in 1 .. k : events[m].type = PLAN_CREATED => m <= j
    ELSE 0

LeftUnassigned(n) ==
    \E j \in DOMAIN events :
        /\ events[j].type = PLAN_CREATED
        /\ TurnOf(j) = n
        /\ Cardinality({events[k].task_id : k \in
                {m \in DOMAIN events : /\ events[m].type = TASK_ASSIGNED
                                       /\ TurnOf(m) = n}})
              < events[j].num_tasks

LastOf(S) == CHOOSE i \in S : \A k \in S : k <= i

\* the (scope, type, key) read back: those of store_item and the profile's
ReadCoords == ItemCoords \cup {<<"user", "semantic", UserProfileKey("u1")>>}

\* C17: after any sequence of store_item calls, load_item_content(k, s, t)
\* returns the content of the most recent store_item call with that key,
\* scope and type (the content as given, when it is a text), and null when
\* there was none: an older item never shadows a newer one.
C17_LatestItemWins ==
    /\ \A c \in ReadCoords :
          LET M == Matching(memory_items, c[3], c[1], c[2])
          IN  load_item_content(memory_items, c[3], c[1], c[2]) =
                IF M = {} THEN {Null} ELSE {memory_items[LastOf(M)].content}
    /\ (op.name = "store_item" /\ IsStr(op.content)) =>
          load_item_content(memory_items, op.key, op.scope, op.type)
              = {op.content}

\* a step that is a call of the store operation named name
StoreCall(name) == steps' = steps + 1 /\ op'.name = name

\* C18: store_item inserts exactly one new memory item with a fresh id and
\* leaves every existing item unchanged, items of the same scope, type and
\* key included; no operation of the store updates or deletes a memory
\* item, so the items only grow.
C18_ItemsOnlyGrow ==
    [][/\ Len(memory_items') >= Len(memory_items)
       /\ SubSeq(memory_items', 1, Len(memory_items)) = memory_items
       /\ StoreCall("store_item") =>
            /\ Len(memory_items') = Len(memory_items) + 1
            /\ memory_items'[Len(memory_items')].id = op'.id
            /\ memory_items'[Len(memory_items')].scope = op'.scope
            /\ memory_items'[Len(memory_items')].type = op'.type
            /\ memory_items'[Len(memory_items')].key = op'.key
            /\ \A i \in DOMAIN memory_items : memory_items[i].id # op'.id
       /\ ~(StoreCall("store_item") \/ StoreCall("save_user_profile_json"))
            => memory_items' = memory_items]_vars

C18_Witness ==
    /\ op.name = "store_item"
    /\ Len(memory_items) = 3
    /\ \A i \in 1 .. 3 :
          /\ memory_items[i].scope = "global"
          /\ memory_items[i].key = "k"
    /\ memory_items[1].content = "a"
    /\ memory_items[2].content = "b"
    /\ memory_items[3].content = "a"
    /\ memory_items[1].created_at = memory_items[3].created_at

\* the rows logged with correlation id c, in the order they were logged
LoggedWith(c) == SelectSeq(events, LAMBDA row : row.correlation_id = c)

\* the last n entries of a sequence
LastN(seq, n) ==
    IF Len(seq) <= n THEN seq ELSE SubSeq(seq, Len(seq) - n + 1, Len(seq))

\* C19: the event log is append-only, and get_events(c) returns the events
\* logged with correlation id c (the latest limit of them) in the order in
\* which they were logged, each with the type, correlation_id and payload
\* passed to log_event; an event just logged is among the results.
C19_EventsReadBack ==
    /\ [](\A c \in CorrelationIds, limit \in 1 .. MaxStoreOps :
            \A result \in get_events(events, c, limit) :
                LET want == LastN(LoggedWith(c), limit)
                IN  /\ Len(result) = Len(want)
                    /\ \A k \in DOMAIN want :
                          /\ result[k].type = want[k].type
                          /\ result[k].correlation_id = c
                          /\ result[k].payload = json_loads(want[k].payload_json))
    /\ [](op.name = "log_event" =>
            \A result \in get_events(events, op.correlation_id, 1) :
                result = <<[type |-> op.type,
                            correlation_id |-> op.correlation_id,
                            payload |-> op.payload]>>)
    /\ [][/\ Len(events') >= Len(events)
          /\ SubSeq(events', 1, Len(events)) = events]_vars

\* C20: save_agent_definition on an id already stored changes only
\* description, config, is_active, parent_id and lifecycle_state of that
\* definition: its name and created_at stay, and no other definition
\* changes.
C20_UpdateKeepsNameAndCreatedAt ==
    [][(StoreCall("save_agent_definition") /\ op'.stored) =>
            LET i == FindDefinition(agent_definitions, op'.id)
            IN  /\ Len(agent_definitions') = Len(agent_definitions)
                /\ agent_definitions'[i].id = agent_definitions[i].id
                /\ agent_definitions'[i].name = agent_definitions[i].name
                /\ agent_definitions'[i].created_at
                        = agent_definitions[i].created_at
                /\ \A k \in DOMAIN agent_definitions :
                      k # i => agent_definitions'[k] = agent_definitions[k]]_vars

\* C15: when the planner returns None or a plan with no tasks, the turn logs
\* REQUEST_RECEIVED and then a PLAN_CREATED event carrying a warning,
\* assigns no task, and returns the plan-failure fallback, which is also
\* the assistant message appended and persisted.
C15_NoPlanFallback ==
    (pc = "returned" /\ (plan = NoPlan \/ plan.tasks = <<>>)) =>
        /\ Len(TurnEvents) = 2
        /\ TurnEvents[1].type = REQUEST_RECEIVED
        /\ TurnEvents[2].type = PLAN_CREATED
        /\ TurnEvents[2].warning
        /\ returned = PlanFailure
        /\ messages[Len(messages)] = Message("assistant", PlanFailure)
        /\ message_log[Len(message_log)] = Message("assistant", PlanFailure)

\* the fragment a run contributes to the reply: its visible message, the
\* error text for a failure without one, nothing otherwise
Fragment(r) ==
    IF r.user_visible_message # "" THEN <<r.user_visible_message>>
    ELSE IF r.status = FAILURE THEN <<"error_text">>
    ELSE <<>>

\* C16: a turn that returns has appended and persisted exactly one user
\* message, the input text, followed by exactly one assistant message whose
\* content is the returned string; the string is the fragments of the runs
\* in the order the runs were executed, or a fixed fallback text when there
\* is no fragment, and it is never empty.
C16_OneReplyPerTurn ==
    /\ [](pc = "returned" =>
            /\ Len(messages) = 2 * turn
            /\ messages[2 * turn - 1] = Message("user", UserText)
            /\ messages[2 * turn] = Message("assistant", returned)
            /\ message_log = messages
            /\ returned # <<>>
            /\ returned = IF user_visible_response # <<>>
                          THEN user_visible_response
                          ELSE IF plan = NoPlan THEN PlanFailure ELSE Fallback)
    /\ [][/\ (Len(events') = Len(events) + 1
              /\ events'[Len(events')].type \in RunEvents)
                => user_visible_response'
                        = user_visible_response \o Fragment(run)
          /\ ~(Len(events') = Len(events) + 1
               /\ events'[Len(events')].type \in RunEvents)
                => \/ user_visible_response' = user_visible_response
                   \/ /\ pc' = "build"
                      /\ user_visible_response' = <<>>]_vars

\* the second turn returned the fragments of a failed and of a successful
\* run, in that order, after a first turn that returned the fallback text
C16_Witness ==
    /\ pc = "returned"
    /\ turn = 2
    /\ Len(messages) = 4
    /\ messages[2].content = Fallback
    /\ returned = <<"error_text", "msg">>
    /\ messages[4] = Message("assistant", returned)

\* every dimension of an emotional state within its declared range
InRange(s) ==
    /\ \A f \in {"curiosity", "fatigue", "frustration", "confidence",
                  "energy", "playfulness", "social_need", "learning_drive"} :
            s[f] >= 0 /\ s[f] <= Unit
    /\ s.mood >= -Unit
    /\ s.mood <= Unit

\* C14: from an emotional state whose dimensions are in range, after the
\* decay between turns and after every update for a run, in any sequence,
\* curiosity, fatigue, frustration, confidence, energy, playfulness,
\* social_need and learning_drive are in [0,1] and mood is in [-1,1].
C14_EmotionInRange == InRange(emotional_state)

\* an update for a successful run has pushed confidence, curiosity and mood
\* against their upper bounds, after a decay that lowered the fatigue
C14_Witness ==
    /\ op.name = "update_on_agent_run"
    /\ op.status = SUCCESS
    /\ steps >= 3
    /\ emotional_state.confidence = Unit
    /\ emotional_state.curiosity = Unit
    /\ emotional_state.mood = Unit
    /\ emotional_state.fatigue > Unit \div 2
    /\ emotional_state.fatigue < Unit

\* the text of a definition holds one of the dangerous substrings, letter
\* case apart
Dangerous(d) ==
    \E k \in DOMAIN DANGEROUS_KEYWORDS :
        Contains(Lower(DANGEROUS_KEYWORDS[k]), Lower(DefinitionText(d)))

\* the security_alert items that name an agent
AlertsOn(items, name) ==
    {i \in find_items_by_key(items, "security_alert") :
        items[i].content = AlertJson(name)}

\* C11: right after a run of SecurityReviewAgent whose candidates include a
\* definition holding a dangerous substring, that definition is stored with
\* lifecycle_state = draft and is_active = false, whatever it was, and
\* there is one new security_alert memory item naming that agent.
C11_FlaggedIsBlocked ==
    [][(steps' = steps + 1 /\ op'.name = "security_review_agent") =>
            \A i \in DOMAIN agent_definitions :
                (/\ agent_definitions[i].id \in op'.candidates
                 /\ Dangerous(agent_definitions[i]))
                    => /\ agent_definitions'[i].lifecycle_state = "draft"
                       /\ ~agent_definitions'[i].is_active
                       /\ Cardinality(AlertsOn(memory_items',
                                        agent_definitions[i].name))
                            = Cardinality(AlertsOn(memory_items,
                                            agent_definitions[i].name)) + 1]_vars

\* C12: once SecurityReviewAgent has flagged a definition (a security_alert
\* item names it), no later run of ValidatorAgent, CriticAgent or
\* CuratorAgent leaves it with lifecycle_state = active or is_active = true.
C12_SecurityBlockHolds ==
    \A i \in DOMAIN agent_definitions :
        AlertsOn(memory_items, agent_definitions[i].name) # {}
            => /\ agent_definitions[i].lifecycle_state # "active"
               /\ ~agent_definitions[i].is_active

\* C13: after any sequence of runs of ArchitectAgent, ValidatorAgent,
\* SecurityReviewAgent, CriticAgent, CuratorAgent and CodegenAgent, every
\* stored definition with is_active = true has lifecycle_state = active.
C13_ActiveFlagImpliesActiveState ==
    \A i \in DOMAIN agent_definitions :
        agent_definitions[i].is_active
            => agent_definitions[i].lifecycle_state = "active"

\* the third run, of CriticAgent, has made one of two stored definitions
\* active while the other one stays a draft that is not active
C13_Witness ==
    /\ op.name = "critic_agent"
    /\ steps = 3
    /\ \E i, k \in DOMAIN agent_definitions :
          /\ agent_definitions[i].is_active
          /\ agent_definitions[i].lifecycle_state = "active"
          /\ agent_definitions[i].id \in op.candidates
          /\ ~agent_definitions[k].is_active
          /\ agent_definitions[k].lifecycle_state = "draft"

\* C21: no two stored agent definitions have the same name; a
\* save_agent_definition that would give a definition a name another
\* definition (of a different id) holds is rejected with an error and
\* leaves the table of definitions unchanged.
C21_NameUnique ==
    /\ [](\A i, k \in DOMAIN agent_definitions :
            i # k => agent_definitions[i].name # agent_definitions[k].name)
    /\ [][(/\ StoreCall("save_agent_definition")
           /\ \E i \in DOMAIN agent_definitions :
                 /\ agent_definitions[i].name = op'.named
                 /\ agent_definitions[i].id # op'.id)
            => /\ op'.raised
               /\ agent_definitions' = agent_definitions]_vars

\* the update of a stored definition to the name of another one was
\* rejected
C21_Witness ==
    /\ op.name = "save_agent_definition"
    /\ op.raised
    /\ op.stored
    /\ Len(agent_definitions) = 2
    /\ \E i \in DOMAIN agent_definitions :
          /\ agent_definitions[i].name = op.named
          /\ agent_definitions[i].id # op.id

\* C22: after SecurityReviewAgent has flagged a definition, the definition
\* as stored and read back carries security_flags.dangerous_keywords equal
\* to the dangerous substrings found in it.
C22_FlagsPersisted ==
    [][(steps' = steps + 1 /\ op'.name = "security_review_agent") =>
            \A i \in DOMAIN agent_definitions :
                (/\ agent_definitions[i].id \in op'.candidates
                 /\ Hits(Lower(DefinitionText(agent_definitions[i]))) # {})
                    => /\ "security_flags" \in DOMAIN agent_definitions'[i]
                       /\ agent_definitions'[i].security_flags
                            = [dangerous_keywords |->
                                Hits(Lower(DefinitionText(
                                        agent_definitions[i])))]]_vars

\* a step in which the meta-planner ran: a direct run, or a build_plan that
\* reached it
MetaRan ==
    /\ steps' = steps + 1
    /\ \/ op'.name = "meta_router_agent"
       \/ /\ op'.name = "build_plan"
          /\ ~HasExplicitCommand[UserLast(messages)]

\* no requirements sheet of the conversation is stored
NoSheetStored ==
    Matching(memory_items, SheetKey(ContextId), "conversation",
             "procedural") = {}

\* C23: outside governance mode and while no requirements sheet is stored
\* for the conversation, a plan the planner builds holds no
\* analysis-planning task, so that none is executed before a sheet has been
\* captured.
C23_NoAnalysisPlanningBeforeSheet ==
    [][(/\ StoreCall("build_plan")
        /\ NoSheetStored
        /\ plan'.metadata.governance_mode # "true")
            => \A k \in DOMAIN plan'.tasks :
                    plan'.tasks[k].agent_name \notin AnalysisPlannerNames]_vars

\* C24: a run of the meta-planner that returns signals governance mode if
\* and only if the caller forced it, or the last text of the user holds a
\* governance keyword, or the metrics it read, those of a newest diagnostics
\* run, hold an agent with total_runs >= 5 and failure_rate >= 0.6 while the
\* frustration is >= 0.4.
C24_GovernanceTriggers ==
    [][(MetaRan /\ op'.status = SUCCESS) =>
        /\ \/ agent_runs = {} /\ op'.metrics = {}
           \/ \E r \in agent_runs :
                /\ \A q \in agent_runs : q.started_at <= r.started_at
                /\ op'.metrics = r.diagnostics
        /\ op'.payload.governance_mode <=>
            \/ op'.input.force_governance
            \/ \E kw \in gov_keywords :
                    Contains(kw, Lower(UserLast(messages)))
            \/ /\ \E m \in op'.metrics : /\ m.total_runs >= 5
                                         /\ m.failure_rate >= 600
               /\ emotional_state.frustration >= 400]_vars

\* C24 witness: a run that was not forced and read no keyword entered
\* governance mode on the metrics of a failing agent
C24_Witness ==
    /\ op.name = "meta_router_agent"
    /\ op.status = SUCCESS
    /\ ~op.input.force_governance
    /\ op.payload.governance_mode
    /\ op.payload.governance_reason = "high_failure_rate_agents"
    /\ emotional_state.frustration = GovernanceFrustration

\* C25: whenever a run of the meta-planner is in governance mode, whichever
\* trigger activated it, its governance_targets are exactly the agents the
\* metrics identify (total_runs >= 5 and failure_rate >= 0.6) together with
\* the agents named by the security_alert items.
C25_TargetsAreUnion ==
    [][(MetaRan /\ op'.status = SUCCESS /\ op'.payload.governance_mode) =>
            op'.payload.governance_targets =
                {m.agent_name :
                    m \in {x \in op'.metrics : /\ x.total_runs >= 5
                                               /\ x.failure_rate >= 600}}
                \cup {Name(k - 1) :
                        k \in {j \in DOMAIN AlertTexts :
                                 \E i \in DOMAIN memory_items :
                                    /\ memory_items[i].key = "security_alert"
                                    /\ memory_items[i].content
                                            = AlertTexts[j]}}]_vars

\* C26: in every plan the planner returns, be it heuristic, written by the
\* language model or converted from the steps of the meta-planner, no two
\* tasks have the same id.
C26_TaskIdsUnique ==
    \A i, k \in DOMAIN plan.tasks :
        i # k => plan.tasks[i].id # plan.tasks[k].id

\* C27: Agent.run always returns an AgentRun and lets no exception escape;
\* when the implementation raises or returns something that is no
\* AgentResult, the run has status failure, an error entry in its
\* output_payload and the default delta (frustration +0.1, confidence
\* -0.05).
C27_RunAlwaysReturns ==
    [][StoreCall("run") =>
        /\ ~op'.escaped
        /\ run'.id = ids + 1
        /\ run'.agent_name = op'.agent_name
        /\ op'.outcome.kind \in {"raises", "not_agent_result"} =>
            /\ run'.status = FAILURE
            /\ "error" \in DOMAIN run'.output_payload
            /\ run'.emotion_delta.frustration = 100
            /\ run'.emotion_delta.confidence = -50
            /\ \A f \in DOMAIN run'.emotion_delta \ {"frustration",
                                                      "confidence"} :
                    run'.emotion_delta[f] = 0]_vars

\* C27 witness: a run returned for an implementation that gave back a value
\* that is no AgentResult
C27_Witness ==
    /\ op.name = "run"
    /\ op.outcome.kind = "not_agent_result"
    /\ run.status = FAILURE
    /\ run.id = ids

\* C28: registering a name already registered fails with an error and
\* leaves the registry unchanged, and through every register call, scan of
\* the packages and runtime reload each registered name keeps the instance
\* registered first.
C28_FirstInstanceStays ==
    /\ [][(/\ StoreCall("register")
           /\ op'.agent_name \in DOMAIN registry)
            => op'.raised /\ registry' = registry]_vars
    /\ [][\A n \in DOMAIN registry :
            n \in DOMAIN registry' /\ registry'[n] = registry[n]]_vars

\* C28 witness: a runtime reload has run over a registry whose chat_agent
\* was registered by an earlier call and is still that instance, next to an
\* agent the reload added
C28_Witness ==
    /\ op.name = "agent_reload_agent"
    /\ op.mode = "runtime" /\ ~op.dry_run
    /\ "chat_agent" \in DOMAIN registry
    /\ registry["chat_agent"].made[1] < steps
    /\ \E n \in DOMAIN registry : registry[n].made[1] = steps

\* positions of the TASK_ASSIGNED events of the log
AssignedAt == {i \in DOMAIN events : events[i].type = TASK_ASSIGNED}

\* C30: a retry is a requeue the loop reselects at once: when the run of a
\* task fails with retry_count < max_retries and without stop_for_user_input
\* the task is pending again, and with budget left the next task assigned is
\* that same task; no other task is assigned between two attempts of a task.
C30_RetryReselected ==
    /\ [][(/\ pc = "log_run_event"
           /\ run.status = FAILURE
           /\ plan.tasks[next_task].retry_count
                < plan.tasks[next_task].max_retries
           /\ ~run.stop_for_user_input)
            => /\ pc' = "loop"
               /\ plan'.tasks[next_task].status = PENDING
               /\ plan'.tasks[next_task].retry_count
                    = plan.tasks[next_task].retry_count + 1]_vars
    /\ [][(/\ pc = "loop"
           /\ tasks_executed > 0
           /\ tasks_executed < max_tasks_per_turn
           /\ run.status = FAILURE
           /\ plan.tasks[next_task].status = PENDING)
            => /\ pc' = "exec"
               /\ next_task' = next_task
               /\ Len(events') = Len(events) + 1
               /\ events'[Len(events')].type = TASK_ASSIGNED
               /\ events'[Len(events')].task_id = plan.tasks[next_task].id]_vars
    /\ [](\A i, j \in AssignedAt :
            (i < j /\ events[i].task_id = events[j].task_id)
                => \A k \in AssignedAt :
                        (i < k /\ k < j) => events[k].task_id = events[i].task_id)

\* C30 witness: a task assigned again right after its failed run while
\* another task of the plan is pending and ready
C30_Witness ==
    /\ pc = "exec"
    /\ Len(events) >= 3
    /\ events[Len(events) - 2].type = TASK_ASSIGNED
    /\ events[Len(events) - 1].type = AGENT_RUN_FAILED
    /\ events[Len(events)].type = TASK_ASSIGNED
    /\ events[Len(events) - 2].task_id = events[Len(events)].task_id
    /\ \E k \in DOMAIN plan.tasks :
        /\ k # next_task
        /\ plan.tasks[k].status = PENDING
        /\ DepsReady(plan.tasks, k)

\* the events of conversation c: the log filtered by its correlation id
EventsOf(c) == SelectSeq(events, LAMBDA e : e.correlation_id = ContextIdOf(c))

\* the order REQUEST_RECEIVED, PLAN_CREATED, (TASK_ASSIGNED, AGENT_RUN_*)* in
\* every turn of a log, the last turn complete once it has ended
TurnOrderKept(evs, ended) ==
    /\ evs # <<>> => evs[1].type = REQUEST_RECEIVED
    /\ \A k \in 2 .. Len(evs) :
        /\ evs[k].type = REQUEST_RECEIVED
            => evs[k - 1].type \in {PLAN_CREATED} \cup RunEvents
        /\ evs[k].type = PLAN_CREATED => evs[k - 1].type = REQUEST_RECEIVED
        /\ evs[k].type = TASK_ASSIGNED
            => evs[k - 1].type \in {PLAN_CREATED} \cup RunEvents
        /\ evs[k].type \in RunEvents
            => /\ evs[k - 1].type = TASK_ASSIGNED
               /\ evs[k - 1].task_id = evs[k].task_id
    /\ (ended /\ evs # <<>>)
        => evs[Len(evs)].type \in {PLAN_CREATED} \cup RunEvents

\* a step of a turn of conversation c leaves the context of every other
\* conversation as it was
ContextsIsolated ==
    \A c \in Conversations :
        (steps' = steps + 1 /\ op'.name = "turn" /\ op'.conversation = c)
            => \A d \in Conversations \ {c} :
                    conversations'[d].context = conversations[d].context

\* C29: with two conversations running turns concurrently over one store,
\* registry and emotional engine, a step of one conversation's turn never
\* changes the other's context (messages, plan, emotional state), and the
\* events of each conversation, filtered by correlation id, keep the order
\* REQUEST_RECEIVED, PLAN_CREATED, (TASK_ASSIGNED, AGENT_RUN_COMPLETED or
\* AGENT_RUN_FAILED)* in every turn.
C29_ConversationsIndependent ==
    /\ [][ContextsIsolated]_vars
    /\ [](\A c \in Conversations :
            TurnOrderKept(EventsOf(c),
                          conversations[c].pc \in {"returned", "raised"}))

\* task i is pending and each id of its depends_on names no task of the plan
\* or names a task that is done
PendingAndFree(tasks, i) ==
    /\ tasks[i].status = PENDING
    /\ \A dep_id \in tasks[i].depends_on :
          \/ FindTask(tasks, dep_id) = 0
          \/ tasks[FindTask(tasks, dep_id)].status = DONE

\* C31: a dependency id that names no task of the plan never blocks: in a
\* turn that ends with budget left and without a run that set
\* stop_for_user_input, every pending task whose dependencies are all
\* unknown or done has been assigned, and the task assigned is never behind an
\* earlier such task.
C31_UnknownDependencyNeverBlocks ==
    /\ [][(pc = "loop" /\ pc' = "exec")
            => \A i \in DOMAIN plan.tasks :
                    PendingAndFree(plan.tasks, i) => next_task' <= i]_vars
    /\ []((/\ TurnEnded
           /\ plan # NoPlan
           /\ tasks_executed < max_tasks_per_turn
           /\ ~stop_here)
            => \A i \in DOMAIN plan.tasks :
                    PendingAndFree(plan.tasks, i) => Assigned(i) > 0)

\* C32: provided every agent call returns, every turn terminates, after at
\* most max_tasks_per_turn agent invocations, for every plan: plans with
\* self-dependencies or dependency cycles, whose tasks stay pending and are
\* never run, and plans whose tasks all keep failing.
C32_TurnTerminates ==
    /\ (pc = "build") ~> TurnEnded
    /\ [](invocations <= max_tasks_per_turn)
    /\ [](\A i, j \in DOMAIN plan.tasks :
            (/\ plan.tasks[j].id \in plan.tasks[i].depends_on
             /\ plan.tasks[i].id \in plan.tasks[j].depends_on)
                => plan.tasks[i].status = PENDING /\ Assigned(i) = 0)

\* C32 witness: a turn that returned with its budget used up by failed runs
\* and a task still pending
C32_Witness ==
    /\ pc = "returned"
    /\ invocations = max_tasks_per_turn
    /\ Count(TurnEvents, {AGENT_RUN_FAILED}) = max_tasks_per_turn
    /\ \E i \in DOMAIN plan.tasks : plan.tasks[i].status = PENDING

\* C33: Router.build_plan never returns None and never returns a plan
\* without tasks, whatever the meta-planner and the model do: a meta-planner
\* run that fails or yields no usable step and a model plan that cannot be
\* read or is empty fall back to the heuristic plan, which has at least one
\* task.
C33_PlanNeverEmpty ==
    [][StoreCall("build_plan") =>
        /\ plan' # NoPlan
        /\ Len(plan'.tasks) >= 1
        /\ \A k \in DOMAIN plan'.tasks : plan'.tasks[k].agent_name # ""
        /\ (op'.payload.meta_plan = <<>>
            /\ ~HasExplicitCommand[UserLast(messages)])
            => plan'.metadata.source \in {"llm", "heuristic"}]_vars

\* C33 witness: build_plan has returned the heuristic plan after a failed run
\* of the meta-planner and a model plan without a usable step
C33_Witness ==
    /\ op.name = "build_plan"
    /\ op.status = FAILURE
    /\ ~HasExplicitCommand[UserLast(messages)]
    /\ plan.metadata.source = "heuristic"
    /\ Len(plan.tasks) >= 1

\* SecurityReviewAgent has stored an alert for the candidate of the
\* governance agent since the agent read the definitions
FlaggedSinceRead ==
    /\ conversations[1].pc = "read"
    /\ \E k \in DOMAIN memory_items :
        /\ k > conversations[1].items_read
        /\ memory_items[k].key = "security_alert"
        /\ memory_items[k].content
                = AlertJson(conversations[1].candidate[1].name)

\* C34: a security block is not lost to a concurrent governance write: when
\* a governance agent of one conversation has read a definition and
\* SecurityReviewAgent of another conversation then flags it, the save the
\* agent makes from its earlier read does not leave the definition in test
\* or active, nor with is_active true.
C34_BlockSurvivesStaleSave ==
    [][(StoreCall("save") /\ FlaggedSinceRead) =>
        \A k \in DOMAIN agent_definitions' :
            agent_definitions'[k].id = conversations[1].candidate[1].id
                => /\ agent_definitions'[k].lifecycle_state
                        \notin {"test", "active"}
                   /\ ~agent_definitions'[k].is_active]_vars

\* C35: the emotion_delta carried by the AgentRun an agent returns has no
\* effect on the emotional state of the conversation: two executions that
\* differ only in the emotion_delta of the runs hold the same emotional
\* state after every step, the state after a run being a function of the
\* state before, the status of the run and the name of the agent.
C35_RunDeltaIgnored ==
    /\ [](\A c, d \in DOMAIN conversations :
            conversations[c].emotional_state = conversations[d].emotional_state)
    /\ [][StoreCall("pair_run") =>
            \A c \in DOMAIN conversations :
                conversations'[c].emotional_state =
                    apply_delta(conversations[c].emotional_state,
                                RunDelta([agent_name |-> op'.agent_name,
                                          status |-> op'.status]))]_vars

\* C35 witness: both executions have updated their state for a failed run,
\* raised in one and returned with another delta in the other
C35_Witness ==
    /\ op.name = "pair_run"
    /\ op.status = FAILURE
    /\ op.deltas[1] = FailureDelta
    /\ op.deltas[2] = [EmotionDelta EXCEPT !.curiosity = 10]
    /\ conversations[1].emotional_state # EmotionalState
\* the text of a definition holds the k-th dangerous keyword in some letter
\* case
HoldsKeyword(d, k) ==
    Contains(Lower(DANGEROUS_KEYWORDS[k]), Lower(DefinitionText(d)))

\* C37: for every entry of DANGEROUS_KEYWORDS and every candidate a run of
\* SecurityReviewAgent scans whose name, description or config text holds
\* that entry in any letter case, the run blocks the candidate (draft, not
\* active) and stores a security_alert naming it; a candidate holding no
\* entry is left as it was, and a run none of whose candidates holds an
\* entry stores no security_alert.
C37_EveryKeywordFlags ==
    [][(steps' = steps + 1 /\ op'.name = "security_review_agent") =>
        /\ \A i \in DOMAIN agent_definitions :
              agent_definitions[i].id \in op'.candidates =>
                /\ \A k \in DOMAIN DANGEROUS_KEYWORDS :
                      HoldsKeyword(agent_definitions[i], k) =>
                        /\ agent_definitions'[i].lifecycle_state = "draft"
                        /\ ~agent_definitions'[i].is_active
                        /\ AlertsOn(memory_items', agent_definitions[i].name)
                              \ AlertsOn(memory_items,
                                         agent_definitions[i].name) # {}
                /\ (\A k \in DOMAIN DANGEROUS_KEYWORDS :
                        ~HoldsKeyword(agent_definitions[i], k))
                     => agent_definitions'[i] = agent_definitions[i]
        /\ (\A i \in DOMAIN agent_definitions :
                agent_definitions[i].id \in op'.candidates =>
                    \A k \in DOMAIN DANGEROUS_KEYWORDS :
                        ~HoldsKeyword(agent_definitions[i], k))
             => find_items_by_key(memory_items', "security_alert")
                    = find_items_by_key(memory_items, "security_alert")]_vars
\* a critic_suggestion item for an agent with an action
CriticSuggests(items, name, action) ==
    \E i \in find_items_by_key(items, "critic_suggestion") :
        items[i].content = [agent |-> name, action |-> action]

\* the agent_metrics of an agent
MetricsOn(items, name) ==
    {items[i].content :
        i \in {j \in find_items_by_key(items, "agent_metrics") :
                    items[j].content.agent_name = name}}

\* the state a promote suggestion gives
PromotedState(old_state) ==
    CASE old_state = "draft" -> "test"
      [] old_state = "test" -> "active"
      [] old_state = "active" -> "active"
      [] old_state = "deprecated" -> "test"

\* the lifecycle_state the order of priority gives a definition
CuratorPolicy(d, items) ==
    IF AlertsOn(items, d.name) # {} THEN "deprecated"
    ELSE IF CriticSuggests(items, d.name, "deprecate") THEN "deprecated"
    ELSE IF CriticSuggests(items, d.name, "promote")
    THEN PromotedState(d.lifecycle_state)
    ELSE IF \E m \in MetricsOn(items, d.name) :
                m.failure_rate > 450 /\ d.lifecycle_state # "deprecated"
    THEN "deprecated"
    ELSE IF \E m \in MetricsOn(items, d.name) :
                m.success_rate > 850 /\ d.lifecycle_state \in {"draft", "test"}
    THEN "active"
    ELSE d.lifecycle_state

\* C38: a run of CuratorAgent gives every stored definition the state of
\* its order of priority: deprecated when a security alert names it; else
\* deprecated when the critic suggests to deprecate it; else, when the
\* critic suggests to promote it, test from draft, active from test, active
\* from active and test from deprecated; else the policy of the metrics
\* (active from draft or test above a success rate of 0.85, deprecated
\* from any other state above a failure rate of 0.45).
C38_CuratorPriorityOrder ==
    [][(steps' = steps + 1 /\ op'.name = "curator_agent") =>
        \A i \in DOMAIN agent_definitions :
            agent_definitions'[i].lifecycle_state =
                CuratorPolicy(agent_definitions[i], memory_items)]_vars
RulesTriggered ==
    [t \in UserTexts \cup {NoText} |->
        {k \in DOMAIN HeuristicRules :
            \A g \in DOMAIN HeuristicRules[k].groups :
                AnyIn(HeuristicRules[k].groups[g], Lower(t))}]

\* the agent_name of the tasks of a plan, in order
AgentsOf(p) == [k \in DOMAIN p.tasks |-> p.tasks[k].agent_name]

\* C40: a plan of the heuristic planner is that of the earliest rule of the
\* table whose trigger occurs in the last user message, whatever later
\* rules match and wherever their keywords stand in the message; when the
\* trigger of no keyword rule occurs the plan is a single chat_agent task.
C40_FirstRuleWins ==
    [][(StoreCall("build_plan") /\ plan'.metadata.source = "heuristic") =>
        LET text == UserLast(messages)
            keyed == RulesTriggered[text] \ {Len(HeuristicRules)}
        IN  /\ \A k \in keyed :
                  (\A j \in keyed : k <= j)
                        => AgentsOf(plan') = HeuristicRules[k].agents
            /\ keyed = {} => AgentsOf(plan') = <<"chat_agent">>]_vars

\* C40 witness: the heuristic planner has planned for a message that matches
\* two keyword rules, and the plan is that of the earlier rule although the
\* keyword of the later one comes first in the message
C40_Witness ==
    /\ op.name = "build_plan"
    /\ plan # NoPlan
    /\ plan.metadata.source = "heuristic"
    /\ UserLast(messages) = MixedText
    /\ Cardinality(RulesTriggered[MixedText] \ {Len(HeuristicRules)}) = 2
    /\ AgentsOf(plan) = <<"database_designer_agent", "explanation_agent">>
====
